---------------------------- MODULE Spec2Model ----------------------------
(***************************************************************************)
(* Model of the content pipeline agent: the job scheduler                  *)
(* (backend/scheduler.py, backend/app.py), the four-stage pipeline run     *)
(* (trend_graph/graph.py, state.py, nodes/*.py) and the Ledger             *)
(* (trend_graph/database.py, models.py).                                   *)
(*                                                                         *)
(* Twelve specifications share the variables:                              *)
(*   SpecSched   the scheduler, its four jobs, manual triggers and the     *)
(*               POST /workflow/run endpoint; time is counted in minutes.  *)
(*   SpecRun     one pipeline run, stage by stage, from an empty Ledger.   *)
(*   SpecLedger  successive runs and the metrics back-fill over the same   *)
(*               Ledger.                                                   *)
(*   SpecGen     the Generate stage on a batch of posts, with fairness.    *)
(*   SpecPublish the Publish stage and an overlapping metrics back-fill.   *)
(*   SpecJob     one execution of the scheduled workflow job and           *)
(*               SchedulerManager.stop.                                    *)
(*   SpecStatus  the end of a run and the result and status queries.       *)
(*   SpecScore   the scorer applied to a post under a configured minimum.  *)
(*   SpecCollect one run started with or without a subreddit list.         *)
(*   SpecTweet   generate_tweet and the length check of post_tweet.        *)
(*   SpecRunFair one run of at most two posts, with fairness.              *)
(*   SpecManager start, stop and get_status of the SchedulerManager and    *)
(*               executions of the metrics job.                            *)
(***************************************************************************)
EXTENDS Integers, Sequences, FiniteSets, TLC

VARIABLES
  \* ---- scheduler (SchedulerManager + the APScheduler objects it configures)
  schedulerUp,   \* self.running
  scheduler,     \* self.scheduler: whether there is one, the ids of the jobs
                 \* added to it and whether it was started
  job_stats,     \* self.job_stats, the six counters
  now,           \* wall clock, minutes since the scheduler was started
  nextRun,       \* [job id -> job.next_run_time]
  tasks,         \* [job id -> sequence of submitted instances not yet finished]
  apiRuns,       \* background tasks of POST /workflow/run in flight
  manualDue,     \* [job id -> next_run_time was set by run_job_now and is not yet processed]
  manualCount,   \* number of run_job_now calls so far
  skipped,       \* [job id -> a firing was skipped (max instances) since the last submission]
  \* ---- pipeline run (TrendWorkflow.run_workflow and the four graph nodes)
  pc,            \* position of the run inside run_workflow / the graph
  runNo,         \* number of runs started so far
  state,         \* the TrendState object of the current run
  loc,           \* locals of the node that is executing
  genCalls,      \* reddit ids handed to the generation collaborator in this run
  pubCalls,      \* reddit ids handed to the publishing collaborator in this run, in order
  stepLog,       \* the values current_step has taken in this run, in order
  \* ---- Ledger (PostRecord and WorkflowRecord rows)
  ledger,        \* [reddit id -> PostRecord row, status "absent" when there is none]
  wf,            \* the WorkflowRecord row of the current run
  \* ---- metrics back-fill (MetricsCollector.collect_pending_metrics)
  mq,            \* the metrics back-fill in progress: its locals and suspension point
  mCount,        \* number of back-fill executions started so far
  \* ---- callers of the pipeline (the scheduler's executor, the API handlers)
  reply          \* what the last call of run_trend_analysis, get_workflow_status or
                 \* the workflow job handed back to its caller

managerVars == <<scheduler, job_stats>>

schedVars ==
  <<schedulerUp, now, nextRun, tasks, apiRuns, manualDue, manualCount, skipped,
    managerVars>>

runVars == <<pc, runNo, state, loc, genCalls, pubCalls, stepLog, ledger, wf, mq, mCount>>

vars == <<schedVars, runVars, reply>>

-----------------------------------------------------------------------------
(* Bounds of the model *)

MaxTime == 10        \* the clock stops here
MaxManual == 1       \* run_job_now calls explored
MaxApiRuns == 1      \* POST /workflow/run requests in flight explored

-----------------------------------------------------------------------------
(* Scheduler: the job table of SchedulerManager._add_jobs *)

Jobs == {"workflow_job", "metrics_job", "snapshot_job", "cleanup_job"}

interval_minutes == 5

\* trigger period of each job, minutes
Interval(j) ==
  CASE j = "workflow_job" -> interval_minutes
    [] j = "metrics_job"  -> 1 * 60
    [] j = "snapshot_job" -> 6 * 60
    [] j = "cleanup_job"  -> 24 * 60

\* a job registered without its overlap guard
MaxInstancesTwo(j) == 2

\* max_instances of each add_job call
MaxInstances(j) == 1

\* a job registered without coalescing
CoalesceOff(j) == FALSE

\* coalesce of each add_job call
Coalesce(j) == TRUE

\* misfire_grace_time in minutes; a job registered without one gets the
\* scheduler's default of one second, which is below one minute.
MisfireGrace(j) ==
  CASE j = "workflow_job" -> 300 \div 60
    [] j = "metrics_job"  -> 600 \div 60
    [] OTHER              -> 1 \div 60

\* Minutes from scheduler start to the first 02:00 of the cron trigger: the
\* scheduler may be started shortly before 02:00 or a whole day before it.
CronOffsets == {3, Interval("cleanup_job")}

FirstFire(j, t, off) == IF j = "cleanup_job" THEN t + off ELSE t + Interval(j)

NoTasks == [j \in Jobs |-> <<>>]

\* self.scheduler = None
NoScheduler == [exists |-> FALSE, jobs |-> {}, started |-> FALSE]

\* the job statistics of SchedulerManager.__init__
NoJobStats ==
  [ workflow_runs |-> 0, workflow_successes |-> 0, workflow_failures |-> 0,
    metrics_collections |-> 0, metrics_successes |-> 0, metrics_failures |-> 0 ]

InitSched ==
  /\ schedulerUp = FALSE
  /\ scheduler = NoScheduler
  /\ job_stats = NoJobStats
  /\ now = 0
  /\ nextRun = [j \in Jobs |-> 0]
  /\ tasks = NoTasks
  /\ apiRuns = 0
  /\ manualDue = [j \in Jobs |-> FALSE]
  /\ manualCount = 0
  /\ skipped = [j \in Jobs |-> FALSE]

-----------------------------------------------------------------------------
(* Pipeline and Ledger: the objects as constructed *)

MaxPosts == 3         \* distinct reddit posts explored

\* the reddit ids of the posts Reddit can hand out
PostIds == 1..MaxPosts

\* TrendState.min_score, the dataclass default
state_min_score == 200

\* the default of TrendState.subreddits
state_subreddits == <<"interestingasfuck", "technology", "pics">>

\* TrendState(): the dataclass defaults; completed_at counts its assignments
TrendState ==
  [ raw_posts |-> <<>>, scored_posts |-> <<>>, generated_posts |-> <<>>,
    results |-> <<>>, workflow_id |-> 0, completed_at |-> 0,
    current_step |-> "", error_message |-> "None",
    min_score |-> state_min_score, subreddits |-> state_subreddits,
    total_scraped |-> 0, total_scored |-> 0, total_generated |-> 0,
    total_posted |-> 0, total_failed |-> 0 ]

\* no PostRecord row for this reddit id; posted_at is "None" (null), "recent"
\* (less than an hour ago) or "old" (an hour ago or more)
NoPostRecord ==
  [status |-> "absent", posted_at |-> "None", metrics_collected_at |-> FALSE]

\* no WorkflowRecord row for this run
NoWorkflowRecord ==
  [ created |-> FALSE, current_step |-> "", success |-> "None",
    error_message |-> "None",
    completed_at |-> FALSE, totals |-> <<0, 0, 0, 0, 0>> ]

\* a PostResult as constructed: PostResult(generated_post=...)
NoResult == [reddit_id |-> 0, status |-> "generated", error_message |-> "None"]

\* locals of a node: index into the list it walks, list it builds,
\* outcome of each generation task; for the publish loop also where the
\* coroutine is suspended ("call": not suspended, "ledger": inside
\* post_tweet awaiting the Ledger write, "sleep": in asyncio.sleep), the
\* result post_tweet is about to return, and the seconds waited since the
\* previous publish call returned; for the scrape loop what each subreddit
\* fetched so far gave (it raised, or the posts it returned)
NoLocals ==
  [ i |-> 0, acc |-> <<>>, gen |-> <<>>,
    phase |-> "call", result |-> NoResult, waited |-> 0, fetched |-> <<>> ]

\* no metrics back-fill is executing: the locals of collect_pending_metrics
\* and collect_metrics_batch (tweet_ids, loop index, metrics read calls made,
\* results, where the coroutine is suspended, outcome of the last read, seconds
\* waited since the last read returned) and the tweets the log reports as
\* not found
NoBackfill ==
  [ tweet_ids |-> <<>>, i |-> 0, calls |-> <<>>, results |-> <<>>,
    phase |-> "idle", last |-> "None", waited |-> 0, not_found |-> {} ]

InitRun ==
  /\ pc = "idle"
  /\ runNo = 0
  /\ state = TrendState
  /\ loc = NoLocals
  /\ genCalls = {}
  /\ pubCalls = <<>>
  /\ stepLog = <<>>
  /\ ledger = [p \in PostIds |-> NoPostRecord]
  /\ wf = NoWorkflowRecord
  /\ mq = NoBackfill
  /\ mCount = 0

\* nothing was handed back yet; a reply says which function it comes from,
\* whether the function returned or raised, and the fields of the result
NoReply ==
  [ fn |-> "", kind |-> "none", found |-> "None", success |-> "None",
    error_message |-> "None", is_running |-> "None" ]

Init == InitSched /\ InitRun /\ reply = NoReply

-----------------------------------------------------------------------------
(* Scheduler actions *)

\* SchedulerManager.start: a fresh scheduler with the four jobs
Start ==
  /\ ~schedulerUp
  /\ \E off \in CronOffsets :
       nextRun' = [j \in Jobs |-> FirstFire(j, now, off)]
  /\ schedulerUp' = TRUE
  /\ tasks' = NoTasks
  /\ manualDue' = [j \in Jobs |-> FALSE]
  /\ skipped' = [j \in Jobs |-> FALSE]
  /\ scheduler' = [exists |-> TRUE, jobs |-> Jobs, started |-> TRUE]
  /\ UNCHANGED <<runVars, reply, job_stats, now, apiRuns, manualCount>>

Tick ==
  /\ schedulerUp
  /\ now < MaxTime
  /\ now' = now + 1
  /\ UNCHANGED <<runVars, reply, managerVars, schedulerUp, nextRun, tasks, apiRuns, manualDue, manualCount, skipped>>

\* the fire times of job j that are due at time t, oldest first
RECURSIVE RunTimesFrom(_, _, _)
RunTimesFrom(j, r, t) ==
  IF r > t THEN <<>> ELSE <<r>> \o RunTimesFrom(j, r + Interval(j), t)

GetRunTimes(j, t) == RunTimesFrom(j, nextRun[j], t)

Last(s) == s[Len(s)]

\* what the scheduler hands to the executor: with coalesce only the latest
SubmittedRunTimes(j, t) ==
  IF Coalesce(j) THEN <<Last(GetRunTimes(j, t))>> ELSE GetRunTimes(j, t)

\* The scheduler wakes up and finds job j due. With max_instances reached the
\* firing is skipped, otherwise one instance is submitted; either way the
\* next run time moves past now.
ProcessJob(j) ==
  /\ schedulerUp
  /\ nextRun[j] <= now
  /\ LET rts == SubmittedRunTimes(j, now) IN
       /\ IF Len(tasks[j]) >= MaxInstances(j)
            THEN /\ tasks' = tasks
                 /\ skipped' = [skipped EXCEPT ![j] = TRUE]
            ELSE /\ tasks' = [tasks EXCEPT ![j] =
                       Append(@, [rts |-> rts, phase |-> "pending",
                                  due |-> Len(GetRunTimes(j, now))])]
                 /\ skipped' = [skipped EXCEPT ![j] = FALSE]
       /\ nextRun' = [nextRun EXCEPT ![j] = Last(GetRunTimes(j, now)) + Interval(j)]
  /\ manualDue' = [manualDue EXCEPT ![j] = FALSE]
  /\ UNCHANGED <<runVars, reply, managerVars, schedulerUp, now, apiRuns, manualCount>>

RemoveAt(s, i) == SubSeq(s, 1, i - 1) \o SubSeq(s, i + 1, Len(s))

\* after one run time of an instance is dealt with: next run time or done
AfterRunTime(j, i) ==
  IF Len(tasks[j][i].rts) > 1
    THEN [tasks EXCEPT ![j][i].rts = Tail(@), ![j][i].phase = "pending"]
    ELSE [tasks EXCEPT ![j] = RemoveAt(@, i)]

\* The executor reaches the next run time of a submitted instance: a run time
\* older than the grace time is reported missed, otherwise the job function starts.
StartRun(j, i) ==
  /\ i \in 1..Len(tasks[j])
  /\ tasks[j][i].phase = "pending"
  /\ IF now - Head(tasks[j][i].rts) > MisfireGrace(j)
       THEN tasks' = AfterRunTime(j, i)
       ELSE tasks' = [tasks EXCEPT ![j][i].phase = "running"]
  /\ UNCHANGED <<runVars, reply, managerVars, schedulerUp, now, nextRun, apiRuns, manualDue, manualCount, skipped>>

\* The job function returns or raises.
FinishRun(j, i) ==
  /\ i \in 1..Len(tasks[j])
  /\ tasks[j][i].phase = "running"
  /\ tasks' = AfterRunTime(j, i)
  /\ UNCHANGED <<runVars, reply, managerVars, schedulerUp, now, nextRun, apiRuns, manualDue, manualCount, skipped>>

\* a run_job_now that calls the job function itself
RunJobNowSpawn(j) ==
  /\ schedulerUp
  /\ manualCount < MaxManual
  /\ tasks' = [tasks EXCEPT ![j] =
                 Append(@, [rts |-> <<now>>, phase |-> "running", due |-> 1])]
  /\ manualCount' = manualCount + 1
  /\ UNCHANGED <<runVars, reply, managerVars, schedulerUp, now, nextRun, apiRuns, manualDue, skipped>>

\* SchedulerManager.run_job_now / trigger_job: job.modify(next_run_time=now)
RunJobNow(j) ==
  /\ schedulerUp
  /\ manualCount < MaxManual
  /\ nextRun' = [nextRun EXCEPT ![j] = now]
  /\ manualDue' = [manualDue EXCEPT ![j] = TRUE]
  /\ manualCount' = manualCount + 1
  /\ UNCHANGED <<runVars, reply, managerVars, schedulerUp, now, tasks, apiRuns, skipped>>

\* POST /workflow/run: a background task that calls run_trend_analysis
ApiRunWorkflow ==
  /\ apiRuns < MaxApiRuns
  /\ apiRuns' = apiRuns + 1
  /\ UNCHANGED <<runVars, reply, managerVars, schedulerUp, now, nextRun, tasks, manualDue, manualCount, skipped>>

ApiRunDone ==
  /\ apiRuns > 0
  /\ apiRuns' = apiRuns - 1
  /\ UNCHANGED <<runVars, reply, managerVars, schedulerUp, now, nextRun, tasks, manualDue, manualCount, skipped>>

NextSched ==
  \/ Start
  \/ Tick
  \/ \E j \in Jobs : ProcessJob(j)
  \/ \E j \in Jobs : \E i \in 1..Len(tasks[j]) : StartRun(j, i)
  \/ \E j \in Jobs : \E i \in 1..Len(tasks[j]) : FinishRun(j, i)
  \/ \E j \in Jobs : RunJobNow(j)
  \/ ApiRunWorkflow
  \/ ApiRunDone

SpecSched == Init /\ [][NextSched]_vars

-----------------------------------------------------------------------------
(* Claims about the scheduler, checked under SpecSched *)

\* run_workflow executions in flight: the pipeline job's function while it
\* runs, and every background task of POST /workflow/run
Executing(j) == {i \in 1..Len(tasks[j]) : tasks[j][i].phase = "running"}

RunsInFlight == Cardinality(Executing("workflow_job")) + apiRuns

\* C1: for every job id at most one instance (submitted and not yet finished)
\* exists at any instant, so at most one execution of the job is in flight,
\* whatever the interleaving of firings and completions.
C1_SingleInstancePerJob == \A j \in Jobs : Len(tasks[j]) <= 1

\* a firing of a job was processed while its instance was executing, and skipped
C1_FiringSkippedWhileRunning ==
  \E j \in Jobs : skipped[j] /\ Executing(j) # {} /\ nextRun[j] > now

\* C2 (as claimed): at most one run_workflow execution is in flight at any
\* instant, over scheduled firings, manual triggers and POST /workflow/run.
C2_AtMostOneRunInFlight == RunsInFlight <= 1

\* C3: run_job_now only sets the job's next fire time to now and starts
\* nothing; and when the scheduler then processes that firing while an
\* instance of the job is in flight, no second instance appears.
C3_RunNowOnlyReschedules ==
  [][ /\ manualCount' # manualCount =>
           /\ tasks' = tasks
           /\ \E j \in Jobs : nextRun' = [nextRun EXCEPT ![j] = now]
      /\ \A j \in Jobs :
           (manualDue[j] /\ ~manualDue'[j] /\ tasks[j] # <<>>) => tasks'[j] = tasks[j]
    ]_vars

\* run_job_now was called for a job whose instance is executing
C3_RunNowWhileRunning ==
  \E j \in Jobs : manualDue[j] /\ nextRun[j] = now /\ Executing(j) # {}

PendingIn(ts, j) == \E i \in 1..Len(ts[j]) : ts[j][i].phase = "pending"

\* C4: missed firings are coalesced. An execution is queued only by a
\* wake-up that finds the job due with no instance in flight; it stands for
\* the latest due firing alone, all due firings are consumed by it, and
\* nothing is queued when a running instance completes.
C4_CoalescedNoRefire ==
  [][ \A j \in Jobs :
        (PendingIn(tasks', j) /\ ~PendingIn(tasks, j)) =>
           /\ tasks[j] = <<>>
           /\ nextRun[j] <= now
           /\ nextRun'[j] > now
           /\ Len(tasks'[j]) = 1
           /\ Len(tasks'[j][1].rts) = 1
           /\ tasks'[j][1].rts[1] <= now
           /\ nextRun'[j] = tasks'[j][1].rts[1] + Interval(j)
    ]_vars

\* one execution stands for several missed firings, or a firing skipped
\* while an instance ran is not made up for after the instance completed
C4_MissedFiringsCoalesced ==
  \E j \in Jobs :
     \/ Executing(j) # {} /\ tasks[j][1].due >= 2
     \/ skipped[j] /\ tasks[j] = <<>> /\ nextRun[j] > now

-----------------------------------------------------------------------------
(* Scoring (nodes/score.py).  Scores are exact fractions <<n, d>>, d > 0,   *)
(* kept in lowest terms; percentages and multipliers are fractions too.    *)

Range(sq) == {sq[k] : k \in 1..Len(sq)}

RECURSIVE GCD(_, _)
GCD(a, b) == IF b = 0 THEN a ELSE GCD(b, a % b)

Frac(n, d) == LET g == GCD(n, d) IN IF g = 0 THEN <<0, 1>> ELSE <<n \div g, d \div g>>

FracMul(a, b) == Frac(a[1] * b[1], a[2] * b[2])

\* a >= b and a > b on fractions with positive denominators
FracGE(a, b) == a[1] * b[2] >= b[1] * a[2]
FracGT(a, b) == a[1] * b[2] > b[1] * a[2]

\* AppConfig.subreddits, the default of SUBREDDITS
subreddits == <<"interestingasfuck", "technology", "pics">>

\* AppConfig.min_score, the default of MIN_SCORE
app_config_min_score == 200

\* subreddit_multipliers.get(subreddit, 1.0), in tenths
subreddit_multipliers(sr) ==
  CASE sr = "interestingasfuck" -> <<10, 10>>
    [] sr = "technology" -> <<11, 10>>
    [] sr = "pics" -> <<9, 10>>
    [] sr = "programming" -> <<12, 10>>
    [] sr = "MachineLearning" -> <<13, 10>>
    [] sr = "artificial" -> <<12, 10>>
    [] OTHER -> <<10, 10>>

\* max(0.5, 1 - (age_hours - 12) / 24) without the max
age_penalty_without_floor(age_minutes) ==
  Frac(2160 * age_minutes[2] - age_minutes[1], 1440 * age_minutes[2])

\* age_penalty = max(0.5, 1 - (age_hours - 12) / 24), where
\* 1 - (age_hours - 12) / 24 = (2160 - age_minutes) / 1440
age_penalty(age_minutes) ==
  LET linear == Frac(2160 * age_minutes[2] - age_minutes[1], 1440 * age_minutes[2])
  IN IF FracGT(linear, <<1, 2>>) THEN linear ELSE <<1, 2>>

\* a factor computed for every age, without the test age_hours > 12
age_decay_factor_at_any_age(age_minutes) == age_penalty(age_minutes)

\* the factor the time-based adjustment multiplies the score with:
\* age_penalty if age_hours > 12, else the score is left as it is
age_decay_factor(age_minutes) ==
  IF FracGT(age_minutes, <<12 * 60, 1>>) THEN age_penalty(age_minutes) ELSE <<1, 1>>

\* ViralityScorer._apply_scoring_factors; upvote_ratio is in percent, the
\* score and the ages are fractions <<numerator, denominator>>.  The
\* property post.age_minutes reads the clock at every access: age_minutes is
\* what it gave calculate_virality_score, age_minutes_again what it gives
\* here
apply_scoring_factors(post, base_score) ==
  LET s1 == IF post.upvotes > 0 /\ 10 * post.num_comments > post.upvotes
              THEN FracMul(base_score, <<11, 10>>) ELSE base_score
      s2 == IF post.upvote_ratio > 90 THEN FracMul(s1, <<105, 100>>)
            ELSE IF post.upvote_ratio < 70 THEN FracMul(s1, <<95, 100>>)
            ELSE s1
      s3 == FracMul(s2, subreddit_multipliers(post.subreddit))
      s4 == FracMul(s3, age_decay_factor(post.age_minutes_again))
  IN s4

\* a guard that only replaces an age of zero or less
velocity_age_minutes_positive_only(post) ==
  IF FracGE(<<0, 1>>, post.age_minutes) THEN <<1, 1>> ELSE post.age_minutes

\* the age the velocity is computed with: if age_minutes < 1: age_minutes = 1
velocity_age_minutes(post) ==
  IF FracGT(<<1, 1>>, post.age_minutes) THEN <<1, 1>> ELSE post.age_minutes

\* base_score = post.upvotes / age_minutes
base_score_of(post) ==
  LET age_minutes == velocity_age_minutes(post)
  IN Frac(post.upvotes * age_minutes[2], age_minutes[1])

\* ViralityScorer.calculate_virality_score
calculate_virality_score(post) == apply_scoring_factors(post, base_score_of(post))

\* a comparison that leaves out equality
score_meets_threshold_exclusive(score, min_score) == FracGT(score, <<min_score, 1>>)

\* meets_threshold = score >= self.app_config.min_score
score_meets_threshold(score, min_score) == FracGE(score, <<min_score, 1>>)

\* ViralityScorer.score_post under a configured minimum
score_post_configured(post, min_score) ==
  LET score == calculate_virality_score(post)
  IN [ raw_post |-> post, score |-> score,
       meets_threshold |-> score_meets_threshold(score, min_score) ]

\* ViralityScorer.score_post: the threshold is the application config's
score_post(post) == score_post_configured(post, app_config_min_score)

\* list.sort(key=score, reverse=True): stable, highest score first
RECURSIVE InsertByScore(_, _)
InsertByScore(sorted, sp) ==
  IF sorted = <<>> THEN <<sp>>
  ELSE IF FracGT(sp.score, Head(sorted).score) THEN <<sp>> \o sorted
  ELSE <<Head(sorted)>> \o InsertByScore(Tail(sorted), sp)

RECURSIVE SortByScore(_)
SortByScore(sps) ==
  IF sps = <<>> THEN <<>>
  ELSE InsertByScore(SortByScore(SubSeq(sps, 1, Len(sps) - 1)), sps[Len(sps)])

\* ViralityScorer.score_posts
score_posts(posts) == SortByScore([k \in 1..Len(posts) |-> score_post(posts[k])])

\* TrendState.get_posts_above_threshold
get_posts_above_threshold(st) ==
  LET meets(sp) == sp.meets_threshold IN SelectSeq(st.scored_posts, meets)

-----------------------------------------------------------------------------
(* The run: TrendState mutators (state.py) and the graph (graph.py) *)

MaxRuns == 2          \* runs explored one after the other by SpecLedger

\* the min_score argument of run_workflow: <<>> is None, <<m>> overrides
MinScoreOverrides == {<<>>, <<100>>}

\* the subreddit a post belongs to, as an index into subreddits
SubredditOf(p) == ((p - 1) % Len(subreddits)) + 1

PostsOf(g) == {p \in PostIds : SubredditOf(p) = g}

\* submission.score: the upvote counts a post can be seen with
UpvoteMenu(p) == IF p = 1 THEN {15000, 9000} ELSE IF p = 2 THEN {15000, 2400} ELSE {15000}

\* the RawPost built from a submission; every post is seen an hour old,
\* without comments and with 80% upvote ratio
RawPost(p, u) ==
  [ reddit_id |-> p, upvotes |-> u, age_minutes |-> <<60, 1>>,
    age_minutes_again |-> <<60, 1>>, num_comments |-> 0,
    upvote_ratio |-> 80, subreddit |-> subreddits[SubredditOf(p)] ]

RECURSIVE SeqOf(_)
SeqOf(S) == IF S = {} THEN <<>>
            ELSE LET m == CHOOSE x \in S : \A y \in S : x <= y IN <<m>> \o SeqOf(S \ {m})

\* scrape_subreddit: what the g-th subreddit can return, any of its posts
\* with any of their upvote counts (a fetch that raises yields the empty
\* list as well)
Fetch(g) ==
  UNION { { [k \in 1..Len(SeqOf(S)) |-> RawPost(SeqOf(S)[k], f[SeqOf(S)[k]])] :
              f \in {h \in [S -> UNION {UpvoteMenu(p) : p \in PostIds}] :
                        \A p \in S : h[p] \in UpvoteMenu(p)} } :
          S \in SUBSET PostsOf(g) }

update_step(st, step_name) == [st EXCEPT !.current_step = step_name]

start_workflow(st, workflow_id) ==
  [st EXCEPT !.workflow_id = workflow_id, !.current_step = "starting",
             !.error_message = "None"]

complete_workflow(st) ==
  [st EXCEPT !.completed_at = @ + 1, !.current_step = "completed"]

\* a fail_workflow that hands back a fresh state carrying only the error
fail_workflow_fresh_state(st, error_message) ==
  [TrendState EXCEPT !.workflow_id = st.workflow_id, !.min_score = st.min_score,
                     !.error_message = error_message, !.current_step = "failed",
                     !.completed_at = st.completed_at + 1]

fail_workflow(st, error_message) ==
  [st EXCEPT !.error_message = error_message, !.current_step = "failed",
             !.completed_at = @ + 1]

add_raw_posts(st, posts) ==
  [st EXCEPT !.raw_posts = @ \o posts, !.total_scraped = @ + Len(posts)]

add_scored_posts(st, posts) ==
  [st EXCEPT !.scored_posts = @ \o posts, !.total_scored = @ + Len(posts)]

add_generated_posts(st, posts) ==
  [st EXCEPT !.generated_posts = @ \o posts, !.total_generated = @ + Len(posts)]

CountStatus(results, status) ==
  Cardinality({k \in 1..Len(results) : results[k].status = status})

\* add_results counting every result as posted
add_results_all_posted(st, results) ==
  [st EXCEPT !.results = @ \o results,
             !.total_posted = @ + Len(results),
             !.total_failed = @ + CountStatus(results, "failed")]

add_results(st, results) ==
  [st EXCEPT !.results = @ \o results,
             !.total_posted = @ + CountStatus(results, "posted"),
             !.total_failed = @ + CountStatus(results, "failed")]

\* the edge after scraping goes on to scoring with nothing scraped
should_continue_to_scoring_always(st) ==
  IF st.error_message # "None" THEN "END" ELSE "score_virality"

\* the edge after generation goes on to posting with nothing generated
should_continue_to_posting_always(st) ==
  IF st.error_message # "None" THEN "END" ELSE "post_content"

\* the edge after scoring looks at the posts only, not at the error
should_continue_to_generation_ignoring_error(st) ==
  IF get_posts_above_threshold(st) = <<>> THEN "END" ELSE "generate_content"

\* the conditional edges of the graph
should_continue_to_scoring(st) ==
  IF st.error_message # "None" THEN "END"
  ELSE IF st.raw_posts = <<>> THEN "END"
  ELSE "score_virality"

should_continue_to_generation(st) ==
  IF st.error_message # "None" THEN "END"
  ELSE IF get_posts_above_threshold(st) = <<>> THEN "END"
  ELSE "generate_content"

should_continue_to_posting(st) ==
  IF st.error_message # "None" THEN "END"
  ELSE IF st.generated_posts = <<>> THEN "END"
  ELSE "post_content"

\* the graph routes from scraping straight to generation
AfterNodeSkipsScoring(node, st) ==
  CASE node = "scrape_sources" -> (IF st.raw_posts = <<>> THEN "END" ELSE "generate_content")
    [] node = "score_virality" -> should_continue_to_generation(st)
    [] node = "generate_content" -> should_continue_to_posting(st)
    [] node = "post_content" -> "END"

\* TrendWorkflow._build_graph: where the graph goes when a node returns
AfterNode(node, st) ==
  CASE node = "scrape_sources" -> should_continue_to_scoring(st)
    [] node = "score_virality" -> should_continue_to_generation(st)
    [] node = "generate_content" -> should_continue_to_posting(st)
    [] node = "post_content" -> "END"

-----------------------------------------------------------------------------
(* The Ledger: PostRecord and WorkflowRecord mutators (models.py) and the   *)
(* database functions that apply them (database.py).  A database function  *)
(* on a missing row raises; the callers below swallow that.                *)

mark_scored(rec, meets_threshold) ==
  IF meets_threshold THEN [rec EXCEPT !.status = "scored"] ELSE rec

mark_generated(rec) == [rec EXCEPT !.status = "generated"]

mark_posted(rec) == [rec EXCEPT !.status = "posted", !.posted_at = "recent"]

mark_metrics_collected(rec) ==
  [rec EXCEPT !.status = "metrics_collected", !.metrics_collected_at = TRUE]

mark_failed(rec) == [rec EXCEPT !.status = "failed"]

Exists(L, id) == L[id].status # "absent"

\* save_post_record: create the row, or keep the existing one untouched
save_post_record(L, id) ==
  IF Exists(L, id) THEN L
  ELSE [L EXCEPT ![id] = [NoPostRecord EXCEPT !.status = "raw"]]

update_post_score(L, id, meets_threshold) ==
  IF Exists(L, id) THEN [L EXCEPT ![id] = mark_scored(@, meets_threshold)] ELSE L

update_post_content(L, id) ==
  IF Exists(L, id) THEN [L EXCEPT ![id] = mark_generated(@)] ELSE L

update_post_posted(L, id) ==
  IF Exists(L, id) THEN [L EXCEPT ![id] = mark_posted(@)] ELSE L

update_post_metrics(L, id) ==
  IF Exists(L, id) THEN [L EXCEPT ![id] = mark_metrics_collected(@)] ELSE L

update_post_failed(L, id) ==
  IF Exists(L, id) THEN [L EXCEPT ![id] = mark_failed(@)] ELSE L

\* WorkflowRecord.update_stats adds to the stored totals
update_stats(w, st) ==
  [w EXCEPT !.totals = << @[1] + st.total_scraped, @[2] + st.total_scored,
                         @[3] + st.total_generated, @[4] + st.total_posted,
                         @[5] + st.total_failed >>]

\* WorkflowRecord.complete_workflow(success) and .fail_workflow
wf_complete_workflow(w, success) ==
  [w EXCEPT !.completed_at = TRUE, !.success = success,
            !.current_step = IF success = "True" THEN "completed" ELSE "failed"]

wf_fail_workflow(w, error_message) ==
  wf_complete_workflow([w EXCEPT !.error_message = error_message], "False")

-----------------------------------------------------------------------------
(* TrendWorkflow.run_workflow, one action per step between two awaits *)

Logged(log, old, new) ==
  IF new.current_step # old.current_step THEN Append(log, new.current_step) ELSE log

Ids(posts) == {posts[k].reddit_id : k \in 1..Len(posts)}

\* state = TrendState(); state.start_workflow(...); the two overrides, each
\* <<>> for None or <<value>>
run_workflow_begin(min_score, subreddits_override) ==
  /\ pc \in {"idle", "done"}
  /\ runNo < MaxRuns
  /\ runNo' = runNo + 1
  /\ state' = [start_workflow(TrendState, runNo + 1) EXCEPT
                 !.min_score = IF min_score = <<>> THEN @ ELSE min_score[1],
                 !.subreddits = IF subreddits_override = <<>> THEN @
                                ELSE subreddits_override[1]]
  /\ stepLog' = <<"starting">>
  /\ loc' = NoLocals
  /\ genCalls' = {}
  /\ pubCalls' = <<>>
  /\ wf' = NoWorkflowRecord
  /\ pc' = "create_workflow_record"
  /\ UNCHANGED <<ledger, mq, mCount>>

\* run_workflow called by run_trend_analysis for the API or by hand
run_workflow(min_score, subreddits_override) ==
  /\ run_workflow_begin(min_score, subreddits_override)
  /\ UNCHANGED <<schedVars, reply>>

\* a run started without a subreddit list, as the scheduler and the API do
RunWorkflowBegin(min_score) == run_workflow(min_score, <<>>)

\* an except branch that lets the failure of the Ledger's fail_workflow out:
\* run_workflow raises and the state is left as it was
ExceptBranchLedgerFailureRaised(dbOk) ==
  /\ wf' = IF dbOk /\ wf.created THEN wf_fail_workflow(wf, "workflow_failed") ELSE wf
  /\ state' = IF dbOk THEN fail_workflow(state, "workflow_failed") ELSE state
  /\ stepLog' = Logged(stepLog, state, state')
  /\ pc' = "done"

\* the except branch of run_workflow: fail_workflow on the Ledger, whose own
\* failure is ignored, then state.fail_workflow
ExceptBranch(dbOk) ==
  /\ wf' = IF dbOk /\ wf.created THEN wf_fail_workflow(wf, "workflow_failed") ELSE wf
  /\ state' = fail_workflow(state, "workflow_failed")
  /\ stepLog' = Logged(stepLog, state, state')
  /\ pc' = "done"

\* await create_workflow_record(...)
CreateWorkflowRecord ==
  /\ pc = "create_workflow_record"
  /\ \/ /\ wf' = [NoWorkflowRecord EXCEPT !.created = TRUE,
                      !.current_step = "starting", !.success = "False"]
        /\ pc' = "scrape_sources"
        /\ UNCHANGED <<state, stepLog>>
     \/ \E dbOk \in BOOLEAN : ExceptBranch(dbOk)
  /\ UNCHANGED <<schedVars, reply, runNo, loc, genCalls, pubCalls, ledger, mq, mCount>>

\* scrape_sources_node up to the loop of scrape_all_subreddits
ScrapeEnter ==
  /\ pc = "scrape_sources"
  /\ state' = update_step(state, "scraping")
  /\ stepLog' = Logged(stepLog, state, state')
  /\ loc' = [NoLocals EXCEPT !.i = 1]
  /\ pc' = "scraping"
  /\ UNCHANGED <<schedVars, reply, runNo, genCalls, pubCalls, ledger, wf, mq, mCount>>

\* the loop of scrape_all_subreddits goes on to the next subreddit whether
\* the fetch raised or not
NextSubredditStop(i, raised) == IF raised THEN Len(subreddits) + 1 ELSE i + 1
NextSubreddit(i, raised) == i + 1

\* one turn of the loop: fetch a subreddit and save its posts; a save that
\* raises is logged and the post is kept; a fetch that raises (both scrapers
\* failed, or a client could not be initialised) adds no posts
ScrapeSubreddit ==
  /\ pc = "scraping"
  /\ loc.i <= Len(subreddits)
  /\ \E raised \in BOOLEAN :
     \E posts \in (IF raised THEN {<<>>} ELSE Fetch(loc.i)) :
     \E saved \in SUBSET Ids(posts) :
       /\ ledger' = [p \in PostIds |->
                       IF p \in saved THEN save_post_record(ledger, p)[p] ELSE ledger[p]]
       /\ loc' = [loc EXCEPT !.i = NextSubreddit(@, raised), !.acc = @ \o posts,
                             !.fetched = Append(@, [subreddit_name |-> subreddits[loc.i],
                                                    raised |-> raised, posts |-> posts])]
  /\ UNCHANGED <<schedVars, reply, pc, runNo, state, genCalls, pubCalls, stepLog, wf, mq, mCount>>

\* the loop is over: state.add_raw_posts and the node returns
ScrapeReturn ==
  /\ pc = "scraping"
  /\ loc.i > Len(subreddits)
  /\ state' = add_raw_posts(state, loc.acc)
  /\ pc' = AfterNode("scrape_sources", state')
  /\ loc' = NoLocals
  /\ UNCHANGED <<schedVars, reply, runNo, genCalls, pubCalls, stepLog, ledger, wf, mq, mCount>>

\* score_virality_node up to the loop over the scored posts
ScoreEnter ==
  /\ pc = "score_virality"
  /\ state' = update_step(state, "scoring")
  /\ stepLog' = Logged(stepLog, state, state')
  /\ IF state.raw_posts = <<>>
       THEN /\ pc' = AfterNode("score_virality", state')
            /\ loc' = NoLocals
       ELSE /\ pc' = "scoring"
            /\ loc' = [NoLocals EXCEPT !.i = 1, !.acc = score_posts(state.raw_posts)]
  /\ UNCHANGED <<schedVars, reply, runNo, genCalls, pubCalls, ledger, wf, mq, mCount>>

\* await update_post_score(...) for one scored post; its failure is logged
ScoreUpdateDb ==
  /\ pc = "scoring"
  /\ loc.i <= Len(loc.acc)
  /\ \E dbOk \in BOOLEAN :
       ledger' = IF dbOk
                   THEN update_post_score(ledger, loc.acc[loc.i].raw_post.reddit_id,
                                          loc.acc[loc.i].meets_threshold)
                   ELSE ledger
  /\ loc' = [loc EXCEPT !.i = @ + 1]
  /\ UNCHANGED <<schedVars, reply, pc, runNo, state, genCalls, pubCalls, stepLog, wf, mq, mCount>>

\* state.add_scored_posts and the node returns
ScoreReturn ==
  /\ pc = "scoring"
  /\ loc.i > Len(loc.acc)
  /\ state' = add_scored_posts(state, loc.acc)
  /\ pc' = AfterNode("score_virality", state')
  /\ loc' = NoLocals
  /\ UNCHANGED <<schedVars, reply, runNo, genCalls, pubCalls, stepLog, ledger, wf, mq, mCount>>

\* generate_content_node up to asyncio.gather: one task per post above threshold
GenerateEnter ==
  /\ pc = "generate_content"
  /\ state' = update_step(state, "generating")
  /\ stepLog' = Logged(stepLog, state, state')
  /\ LET posts_to_generate == get_posts_above_threshold(state) IN
       IF posts_to_generate = <<>>
         THEN /\ pc' = AfterNode("generate_content", state')
              /\ loc' = NoLocals
         ELSE /\ pc' = "generating"
              /\ loc' = [NoLocals EXCEPT !.acc = posts_to_generate,
                            !.gen = [k \in 1..Len(posts_to_generate) |-> "pending"]]
  /\ UNCHANGED <<schedVars, reply, runNo, genCalls, pubCalls, ledger, wf, mq, mCount>>

\* asyncio.Semaphore(5): the calls generate_with_semaphore lets run at once
NoInFlightLimit(posts) == Len(posts)
InFlightLimit(posts) == 5

\* the tasks whose completion call has been made and has not returned
InFlight(gen) == {k \in 1..Len(gen) : gen[k] = "in_flight"}

\* generate_with_semaphore for the k-th task: the semaphore is entered and
\* generate_tweet makes the completion call
GenerateCall(k) ==
  /\ pc = "generating"
  /\ k \in 1..Len(loc.gen)
  /\ loc.gen[k] = "pending"
  /\ Cardinality(InFlight(loc.gen)) < InFlightLimit(loc.acc)
  /\ genCalls' = genCalls \cup {loc.acc[k].raw_post.reddit_id}
  /\ loc' = [loc EXCEPT !.gen[k] = "in_flight"]
  /\ UNCHANGED <<schedVars, reply, pc, runNo, state, pubCalls, stepLog, ledger, wf, mq, mCount>>

\* ContentGenerator.generate_tweet for the k-th task: the completion call
\* returns a text, or it raises or returns nothing and the task yields None;
\* the semaphore is left
GenerateTweet(k) ==
  /\ pc = "generating"
  /\ k \in 1..Len(loc.gen)
  /\ loc.gen[k] = "in_flight"
  /\ \E tweet_text \in {"text", "None"} : loc' = [loc EXCEPT !.gen[k] = tweet_text]
  /\ UNCHANGED <<schedVars, reply, pc, runNo, state, genCalls, pubCalls, stepLog, ledger, wf, mq, mCount>>

\* the results up to the first task that yielded None
RECURSIVE GeneratedUntilFailure(_, _)
GeneratedUntilFailure(posts, gen) ==
  IF posts = <<>> \/ Head(gen) # "text" THEN <<>>
  ELSE <<Head(posts)>> \o GeneratedUntilFailure(Tail(posts), Tail(gen))

\* the results of gather in task order, without the tasks that yielded None
Generated(posts, gen) ==
  LET made(sp) == \E k \in 1..Len(posts) : posts[k] = sp /\ gen[k] = "text"
  IN SelectSeq(posts, made)

\* gather is complete: update_post_content for each generated post (a
\* failure is logged), state.add_generated_posts and the node returns
GenerateReturn ==
  /\ pc = "generating"
  /\ \A k \in 1..Len(loc.gen) : loc.gen[k] \in {"text", "None"}
  /\ LET generated_posts == Generated(loc.acc, loc.gen) IN
       /\ \E updated \in SUBSET {sp.raw_post.reddit_id : sp \in Range(generated_posts)} :
            ledger' = [p \in PostIds |->
                         IF p \in updated THEN update_post_content(ledger, p)[p] ELSE ledger[p]]
       /\ state' = add_generated_posts(state, generated_posts)
  /\ pc' = AfterNode("generate_content", state')
  /\ loc' = NoLocals
  /\ UNCHANGED <<schedVars, reply, runNo, genCalls, pubCalls, stepLog, wf, mq, mCount>>

\* post_content_node up to the loop of post_tweets_batch
PostEnter ==
  /\ pc = "post_content"
  /\ state' = update_step(state, "posting")
  /\ stepLog' = Logged(stepLog, state, state')
  /\ IF state.generated_posts = <<>>
       THEN /\ pc' = AfterNode("post_content", state')
            /\ loc' = NoLocals
       ELSE /\ pc' = "posting"
            /\ loc' = [NoLocals EXCEPT !.i = 1]
  /\ UNCHANGED <<schedVars, reply, runNo, genCalls, pubCalls, ledger, wf, mq, mCount>>

\* what create_tweet can do: return data, return no data, raise
PostOutcomes == {"data", "no_data", "error"}

\* PostResult of TwitterPoster.post_tweet for one outcome
PostResult(id, outcome) ==
  [ reddit_id |-> id,
    status |-> IF outcome = "data" THEN "posted" ELSE "failed",
    error_message |-> CASE outcome = "data" -> "None"
                        [] outcome = "no_data" -> "Twitter API returned no data"
                        [] outcome = "error" -> "Twitter API error" ]

\* the Ledger write of post_tweet: update_post_posted after data,
\* update_post_failed after an exception, none when no data came back
PostLedger(L, id, outcome, dbOk) ==
  IF ~dbOk THEN L
  ELSE CASE outcome = "data" -> update_post_posted(L, id)
         [] outcome = "error" -> update_post_failed(L, id)
         [] OTHER -> L

\* the loop of post_tweets_batch goes on to the next post whatever the result
NextIndexStop(i, result, n) == IF result.status = "failed" THEN n + 1 ELSE i + 1
NextIndexRetry(i, result, n) == IF result.status = "failed" THEN i ELSE i + 1
NextIndex(i, result, n) == i + 1

\* for i, generated_post in enumerate(generated_posts)
enumerate_reversed(posts, i) == posts[Len(posts) + 1 - i]
enumerate(posts, i) == posts[i]

\* seconds of the asyncio.sleep between two tweets: the same after a posted
\* and after a failed result
rate_limit_wait_after_success_only(result) == IF result.status = "failed" THEN 0 ELSE 3
rate_limit_wait(result) == 3

\* post_tweet has returned: results.append(result); unless this was the last
\* post the loop goes to sleep before the next one
AfterPostTweet(l, result, n) ==
  [ l EXCEPT !.acc = Append(@, result),
             !.result = NoResult,
             !.waited = 0,
             !.phase = IF l.i < n THEN "sleep" ELSE "call",
             !.i = NextIndex(@, result, n) ]

\* one turn of the loop: post_tweet for the i-th generated post, up to its
\* first suspension: create_tweet is a blocking call, so the call and its
\* outcome are one step; after data or an exception post_tweet awaits a
\* Ledger write, after an empty response it returns at once
PostTweet ==
  /\ pc = "posting"
  /\ loc.phase = "call"
  /\ loc.i <= Len(state.generated_posts)
  /\ LET id == enumerate(state.generated_posts, loc.i).raw_post.reddit_id
         n == Len(state.generated_posts) IN
       \E outcome \in PostOutcomes :
         /\ pubCalls' = Append(pubCalls, id)
         /\ loc' = IF outcome = "no_data"
                     THEN AfterPostTweet(loc, PostResult(id, outcome), n)
                     ELSE [loc EXCEPT !.phase = "ledger",
                                      !.result = PostResult(id, outcome)]
  /\ UNCHANGED <<schedVars, reply, pc, runNo, state, genCalls, stepLog, ledger, wf, mq, mCount>>

\* await update_post_posted / update_post_failed inside post_tweet, whose
\* own exceptions are only logged; then post_tweet returns
PostUpdateDb ==
  /\ pc = "posting"
  /\ loc.phase = "ledger"
  /\ \E dbOk \in BOOLEAN :
       ledger' = PostLedger(ledger, loc.result.reddit_id,
                            IF loc.result.status = "posted" THEN "data" ELSE "error",
                            dbOk)
  /\ loc' = AfterPostTweet(loc, loc.result, Len(state.generated_posts))
  /\ UNCHANGED <<schedVars, reply, pc, runNo, state, genCalls, pubCalls, stepLog, wf, mq, mCount>>

\* await asyncio.sleep(3) returns
PostSleep ==
  /\ pc = "posting"
  /\ loc.phase = "sleep"
  /\ loc' = [loc EXCEPT !.phase = "call",
                        !.waited = rate_limit_wait(loc.acc[Len(loc.acc)])]
  /\ UNCHANGED <<schedVars, reply, pc, runNo, state, genCalls, pubCalls, stepLog, ledger, wf, mq, mCount>>

\* the loop is over: state.add_results and the node returns
PostReturn ==
  /\ pc = "posting"
  /\ loc.phase = "call"
  /\ loc.i > Len(state.generated_posts)
  /\ state' = add_results(state, loc.acc)
  /\ pc' = AfterNode("post_content", state')
  /\ loc' = NoLocals
  /\ UNCHANGED <<schedVars, reply, runNo, genCalls, pubCalls, stepLog, ledger, wf, mq, mCount>>

\* the node whose body is executing
NodeOf(p) ==
  CASE p = "scraping" -> "scrape_sources" [] p = "scoring" -> "score_virality"
    [] p = "generating" -> "generate_content" [] p = "posting" -> "post_content"

\* an exception escapes the body of a node, outside its per-item handlers:
\* the except branch of the node calls state.fail_workflow and returns the
\* state.  The body is between two awaits or past its loop; in the scoring
\* node add_scored_posts may already have run (the statistics come after it).
StageRaises ==
  /\ pc \in {"scraping", "scoring", "generating", "posting"}
  /\ pc = "generating" => \A k \in 1..Len(loc.gen) : loc.gen[k] \in {"text", "None"}
  /\ pc = "posting" => loc.phase = "call"
  /\ \E st \in {state} \cup
                (IF pc = "scoring" /\ loc.i > Len(loc.acc)
                   THEN {add_scored_posts(state, loc.acc)} ELSE {}) :
       state' = fail_workflow(st, "node_error")
  /\ stepLog' = Logged(stepLog, state, state')
  /\ pc' = AfterNode(NodeOf(pc), state')
  /\ loc' = NoLocals
  /\ UNCHANGED <<schedVars, reply, runNo, genCalls, pubCalls, ledger, wf, mq, mCount>>

\* the graph has ended: await update_workflow_stats(...)
UpdateWorkflowStats ==
  /\ pc = "END"
  /\ \/ /\ wf' = update_stats(wf, state)
        /\ pc' = "complete_workflow"
        /\ UNCHANGED <<state, stepLog>>
     \/ \E dbOk \in BOOLEAN : ExceptBranch(dbOk)
  /\ UNCHANGED <<schedVars, reply, runNo, loc, genCalls, pubCalls, ledger, mq, mCount>>

\* fail_workflow or complete_workflow on the Ledger, then on the state
CompleteWorkflow ==
  /\ pc = "complete_workflow"
  /\ \/ /\ IF state.error_message # "None"
             THEN /\ wf' = wf_fail_workflow(wf, state.error_message)
                  /\ state' = fail_workflow(state, state.error_message)
             ELSE /\ wf' = wf_complete_workflow(wf, "True")
                  /\ state' = complete_workflow(state)
        /\ stepLog' = Logged(stepLog, state, state')
        /\ pc' = "done"
     \/ \E dbOk \in BOOLEAN : ExceptBranch(dbOk)
  /\ UNCHANGED <<schedVars, reply, runNo, loc, genCalls, pubCalls, ledger, mq, mCount>>

-----------------------------------------------------------------------------
(* Metrics back-fill: MetricsCollector.collect_pending_metrics *)

MaxMetricsRuns == 1   \* back-fill executions explored

\* an hour goes by on the clock that utcnow() reads: every posted_at that
\* was less than an hour old is now at least an hour old
HourPasses ==
  /\ \E p \in PostIds : ledger[p].posted_at = "recent"
  /\ ledger' = [p \in PostIds |->
                  IF ledger[p].posted_at = "recent"
                    THEN [ledger[p] EXCEPT !.posted_at = "old"] ELSE ledger[p]]
  /\ UNCHANGED <<schedVars, reply, pc, runNo, state, loc, genCalls, pubCalls, stepLog, wf, mq, mCount>>

\* a query that leaves out the age filter on posted_at
get_posts_needing_metrics_of_any_age(L) ==
  {p \in PostIds : L[p].status = "posted" /\ ~L[p].metrics_collected_at}

\* get_posts_needing_metrics: POSTED rows whose posted_at is at least an
\* hour old and whose metrics_collected_at is null
get_posts_needing_metrics(L) ==
  {p \in PostIds : /\ L[p].status = "posted"
                   /\ L[p].posted_at = "old"
                   /\ ~L[p].metrics_collected_at}

MetricsSelect ==
  /\ mq.phase = "idle"
  /\ mCount < MaxMetricsRuns
  /\ LET posts_needing_metrics == get_posts_needing_metrics(ledger)
     IN /\ posts_needing_metrics # {}
        /\ mq' = [NoBackfill EXCEPT !.tweet_ids = SeqOf(posts_needing_metrics),
                                    !.i = 1, !.phase = "read"]
  /\ mCount' = mCount + 1
  /\ UNCHANGED <<schedVars, reply, pc, runNo, state, loc, genCalls, pubCalls, stepLog, ledger, wf>>

\* what client.get_tweet does: it returns data with public metrics, raises a
\* TweepyException whose text holds "Not Found", or fails in another way (any
\* other exception; an empty response and a missing client end the same way)
GetTweetOutcomes == {"data", "not_found", "error"}

\* what collect_tweet_metrics returns: the metrics, or None after every
\* failure; the kind of failure only chooses the log line
collect_tweet_metrics(outcome) == IF outcome = "data" THEN "metrics" ELSE "None"

\* the summary collect_pending_metrics returns: one metrics_collected per
\* result, one error per tweet id without a result
Summary(q) ==
  [ posts_processed |-> Len(q.tweet_ids),
    metrics_collected |-> Len(q.results),
    errors |-> Cardinality(Range(q.tweet_ids) \ Range(q.results)) ]

\* seconds of the asyncio.sleep between two metrics reads: the same after a
\* successful and after a failed read
metrics_wait(metrics) == 12

\* one turn of the loop of collect_metrics_batch: collect_tweet_metrics for
\* the i-th tweet, get_tweet being a blocking call; the result is kept when
\* there is one; unless this was the last tweet the loop goes to sleep
MetricsRead ==
  /\ mq.phase = "read"
  /\ \E outcome \in GetTweetOutcomes :
       LET metrics == collect_tweet_metrics(outcome)
           results == IF metrics = "None" THEN mq.results
                      ELSE Append(mq.results, mq.tweet_ids[mq.i])
           read == [mq EXCEPT !.calls = Append(@, mq.tweet_ids[mq.i]),
                              !.results = results,
                              !.last = metrics,
                              !.waited = 0,
                              !.not_found = IF outcome = "not_found"
                                              THEN @ \cup {mq.tweet_ids[mq.i]} ELSE @]
       IN mq' = IF mq.i < Len(mq.tweet_ids)
                  THEN [read EXCEPT !.phase = "sleep"]
                  ELSE [read EXCEPT !.phase = "update", !.i = 1]
  /\ UNCHANGED <<schedVars, reply, pc, runNo, state, loc, genCalls, pubCalls, stepLog, ledger, wf, mCount>>

\* await asyncio.sleep(12) returns
MetricsSleep ==
  /\ mq.phase = "sleep"
  /\ mq' = [mq EXCEPT !.phase = "read", !.i = @ + 1, !.waited = metrics_wait(mq.last)]
  /\ UNCHANGED <<schedVars, reply, pc, runNo, state, loc, genCalls, pubCalls, stepLog, ledger, wf, mCount>>

\* one collected result: update_post_metrics_in_db, whose own exceptions are
\* only logged
MetricsUpdate ==
  /\ mq.phase = "update"
  /\ mq.i <= Len(mq.results)
  /\ \E dbOk \in BOOLEAN :
       ledger' = IF dbOk THEN update_post_metrics(ledger, mq.results[mq.i]) ELSE ledger
  /\ mq' = [mq EXCEPT !.i = @ + 1]
  /\ UNCHANGED <<schedVars, reply, pc, runNo, state, loc, genCalls, pubCalls, stepLog, wf, mCount>>

\* every result is written: collect_pending_metrics returns its summary
MetricsReturn ==
  /\ mq.phase = "update"
  /\ mq.i > Len(mq.results)
  /\ mq' = NoBackfill
  /\ UNCHANGED <<schedVars, reply, pc, runNo, state, loc, genCalls, pubCalls, stepLog, ledger, wf, mCount>>

-----------------------------------------------------------------------------
(* Results and status queries: run_trend_analysis, get_workflow_status *)

\* run_trend_analysis: the result built from the final state that
\* run_workflow returned, or from the exception it raised
run_trend_analysis(outcome) ==
  IF outcome.kind = "return"
    THEN [NoReply EXCEPT
            !.fn = "run_trend_analysis", !.kind = "return",
            !.success = IF outcome.final_state.error_message = "None"
                          THEN "True" ELSE "False",
            !.error_message = outcome.final_state.error_message]
    ELSE [NoReply EXCEPT
            !.fn = "run_trend_analysis", !.kind = "return",
            !.success = "False", !.error_message = "str(e)"]

\* run_workflow has returned its final state and run_trend_analysis hands
\* its result to the caller
RunTrendAnalysisReturn ==
  /\ pc = "done"
  /\ reply' = run_trend_analysis([kind |-> "return", final_state |-> state])
  /\ pc' = "returned"
  /\ UNCHANGED <<schedVars, runNo, state, loc, genCalls, pubCalls, stepLog,
                 ledger, wf, mq, mCount>>

\* get_workflow_record: the row of the id, or None for an unknown id and,
\* by its bare except, for any failure of the Ledger
get_workflow_record(w, known, dbOk) ==
  IF known /\ dbOk /\ w.created THEN w ELSE NoWorkflowRecord

\* the result dict of get_workflow_status: without a record found False
\* with the text "Workflow not found" under the key error and no success
\* key; with one the fields of the record
StatusOf(workflow_record) ==
  IF ~workflow_record.created
    THEN [NoReply EXCEPT !.fn = "get_workflow_status", !.kind = "return",
                         !.found = "False", !.error_message = "Workflow not found"]
    ELSE [NoReply EXCEPT !.fn = "get_workflow_status", !.kind = "return",
                         !.found = "True",
                         !.success = workflow_record.success,
                         !.error_message = workflow_record.error_message,
                         !.is_running = IF workflow_record.completed_at
                                          THEN "False" ELSE "True"]

\* a get_workflow_status that lets a failure of the Ledger through
get_workflow_status_unguarded(w, known, dbOk) ==
  IF ~dbOk
    THEN [NoReply EXCEPT !.fn = "get_workflow_status", !.kind = "raise"]
    ELSE StatusOf(get_workflow_record(w, known, dbOk))

get_workflow_status(w, known, dbOk) == StatusOf(get_workflow_record(w, known, dbOk))

\* GET /workflow/status/{workflow_id}, asked at any moment, for the id of
\* the run or for an unknown id, with the Ledger answering or failing
GetWorkflowStatus ==
  /\ \E known \in BOOLEAN : \E dbOk \in BOOLEAN :
       reply' = get_workflow_status(wf, known, dbOk)
  /\ UNCHANGED <<schedVars, runVars>>

\* the first run of the process
FirstRun(min_score) == runNo = 0 /\ RunWorkflowBegin(min_score)

\* one run from an empty Ledger
NextRun ==
  \/ \E min_score \in MinScoreOverrides : FirstRun(min_score)
  \/ CreateWorkflowRecord
  \/ ScrapeEnter
  \/ ScrapeSubreddit
  \/ ScrapeReturn
  \/ ScoreEnter
  \/ ScoreUpdateDb
  \/ ScoreReturn
  \/ GenerateEnter
  \/ \E k \in 1..Len(loc.gen) : GenerateCall(k)
  \/ \E k \in 1..Len(loc.gen) : GenerateTweet(k)
  \/ GenerateReturn
  \/ PostEnter
  \/ PostTweet
  \/ PostUpdateDb
  \/ PostSleep
  \/ PostReturn
  \/ StageRaises
  \/ UpdateWorkflowStats
  \/ CompleteWorkflow

SpecRun == Init /\ [][NextRun]_vars

\* successive scheduled runs and executions of the metrics back-fill over
\* the same Ledger, one after the other; SpecPublish explores a back-fill
\* that overlaps a run
NextLedger ==
  \/ mq.phase = "idle" /\ RunWorkflowBegin(<<>>)
  \/ CreateWorkflowRecord
  \/ ScrapeEnter
  \/ ScrapeSubreddit
  \/ ScrapeReturn
  \/ ScoreEnter
  \/ ScoreUpdateDb
  \/ ScoreReturn
  \/ GenerateEnter
  \/ \E k \in 1..Len(loc.gen) : GenerateCall(k)
  \/ \E k \in 1..Len(loc.gen) : GenerateTweet(k)
  \/ GenerateReturn
  \/ PostEnter
  \/ PostTweet
  \/ PostUpdateDb
  \/ PostSleep
  \/ PostReturn
  \/ StageRaises
  \/ UpdateWorkflowStats
  \/ CompleteWorkflow
  \/ pc \in {"idle", "done"} /\ mq.phase = "idle" /\ HourPasses
  \/ pc \in {"idle", "done"} /\ MetricsSelect
  \/ MetricsRead
  \/ MetricsSleep
  \/ MetricsUpdate
  \/ MetricsReturn

SpecLedger == Init /\ [][NextLedger]_vars

-----------------------------------------------------------------------------
(* Properties of a run *)

\* the node that is executing, if any
InNode == pc \in {"scraping", "scoring", "generating", "posting"}

\* the graph has ended for this run
GraphEnded == pc \in {"END", "complete_workflow", "done"}

Entered(step) == step \in Range(stepLog)

StepRank(step) ==
  CASE step = "starting" -> 1 [] step = "scraping" -> 2 [] step = "scoring" -> 3
    [] step = "generating" -> 4 [] step = "posting" -> 5
    [] step \in {"completed", "failed"} -> 6 [] OTHER -> 0

\* the run has ended the way its error_message says
EndsByError ==
  pc = "done" =>
    \/ state.error_message = "None" /\ state.current_step = "completed"
    \/ state.error_message \in {"workflow_failed", "node_error"}
         /\ state.current_step = "failed"

\* C5: within a run current_step only moves starting -> scraping -> scoring
\* -> generating -> posting -> (completed | failed): a stage is entered only
\* from its immediate predecessor and only while no node is executing, the
\* terminal steps are reached only from an earlier step, nothing follows a
\* terminal step, and no step is taken twice.
C5_StagesInOrder ==
  [][ /\ state'.current_step # state.current_step =>
          \/ /\ runNo' = runNo + 1
             /\ state'.current_step = "starting"
             /\ state.current_step \in {"", "completed", "failed"}
          \/ /\ runNo' = runNo
             /\ StepRank(state.current_step) \in 1..5
             /\ \/ /\ state'.current_step \in {"scraping", "scoring", "generating", "posting"}
                   /\ StepRank(state'.current_step) = StepRank(state.current_step) + 1
                   /\ ~InNode
                \/ /\ state'.current_step = "completed"
                   /\ StepRank(state.current_step) \in 2..5
                   /\ ~InNode
                \/ state'.current_step = "failed"
      /\ \A a, b \in 1..Len(stepLog') :
            a < b => StepRank(stepLog'[a]) < StepRank(stepLog'[b])
      /\ stepLog' # <<>> => stepLog'[Len(stepLog')] = state'.current_step
    ]_vars

C5_AllStagesRan ==
  /\ pc = "done"
  /\ stepLog = <<"starting", "scraping", "scoring", "generating", "posting", "completed">>

ZeroCounters ==
  /\ state.total_scored = 0 /\ state.total_generated = 0
  /\ state.total_posted = 0 /\ state.total_failed = 0

\* C6 (as claimed): a run whose Collect stage yielded no items ends
\* Completed with scored, generated, posted and failed counters at zero.
C6_EmptyCollectCompletes ==
  (pc = "done" /\ Entered("scraping") /\ state.raw_posts = <<>>) =>
    (state.current_step = "completed" /\ ZeroCounters)

\* C6 (amended): once Collect has returned no items, no later stage is
\* entered, no generation or publishing call is made and the scored,
\* generated, posted and failed counters stay zero; the run ends Completed
\* unless it met a run-fatal failure (the Collect node or a Ledger call of
\* run_workflow raised), and then it ends Failed.
C6_EmptyCollectShortCircuits ==
  (Entered("scraping") /\ pc # "scraping" /\ state.raw_posts = <<>>) =>
    /\ GraphEnded
    /\ ~Entered("scoring") /\ ~Entered("generating") /\ ~Entered("posting")
    /\ genCalls = {} /\ pubCalls = <<>>
    /\ ZeroCounters
    /\ EndsByError

C6_EmptyCollectCompleted ==
  /\ pc = "done" /\ Entered("scraping") /\ state.raw_posts = <<>>
  /\ state.current_step = "completed"

\* a run whose scoring returned without a post above the threshold, or
\* whose generation returned without a generated post
NothingToGenerate ==
  Entered("scoring") /\ pc # "scoring" /\ get_posts_above_threshold(state) = <<>>

NothingToPublish ==
  Entered("generating") /\ pc # "generating" /\ state.generated_posts = <<>>

\* C7 (as claimed): a run that had nothing to generate, or nothing to
\* publish, ends Completed.
C7_SkippedRunCompletes ==
  (pc = "done" /\ (NothingToGenerate \/ NothingToPublish)) =>
    state.current_step = "completed"

\* C7 (amended): Generate is entered only with a scored post above the
\* threshold and Publish only with a generated post; otherwise the graph
\* ends at once, the skipped stages are never entered and their
\* collaborators never called; the run then ends Completed unless it met a
\* run-fatal failure (a node or a Ledger call of run_workflow raised), and
\* then it ends Failed.
C7_SkipsEmptyStages ==
  /\ Entered("generating") => get_posts_above_threshold(state) # <<>>
  /\ Entered("posting") => state.generated_posts # <<>>
  /\ genCalls # {} => Entered("generating")
  /\ pubCalls # <<>> => Entered("posting")
  /\ NothingToGenerate =>
       /\ GraphEnded /\ ~Entered("generating") /\ ~Entered("posting")
       /\ genCalls = {} /\ pubCalls = <<>>
  /\ NothingToPublish =>
       /\ GraphEnded /\ ~Entered("posting") /\ pubCalls = <<>>
  /\ EndsByError

C7_GenerationYieldedNothing ==
  /\ pc = "done" /\ NothingToPublish /\ genCalls # {}
  /\ state.current_step = "completed"

\* C8 (as claimed): a scored post counts as above the threshold, and so
\* proceeds to Generate, exactly when its score is at least the min_score
\* of this run's state, the override included.
C8_ThresholdOfRun ==
  /\ \A sp \in Range(state.scored_posts) :
        sp.meets_threshold <=> FracGE(sp.score, <<state.min_score, 1>>)
  /\ pc = "done" /\ state.error_message = "None" /\ Entered("scoring") =>
        genCalls = {sp.raw_post.reddit_id : sp \in
                      {x \in Range(state.scored_posts) : FracGE(x.score, <<state.min_score, 1>>)}}

\* the order of PostStatus; FAILED is above all, so that any move to it counts
\* as forward
StatusRank(status) ==
  CASE status = "absent" -> 0 [] status = "raw" -> 1 [] status = "scored" -> 2
    [] status = "generated" -> 3 [] status = "posted" -> 4
    [] status = "metrics_collected" -> 5 [] status = "failed" -> 6

\* C9 (as claimed): the status of a Ledger row never moves backwards and a
\* row that is Failed stays Failed, whatever later runs collect.
C9_StatusNeverRegresses ==
  [][ \A p \in PostIds :
        /\ StatusRank(ledger'[p].status) >= StatusRank(ledger[p].status)
        /\ ledger[p].status = "failed" => ledger'[p].status = "failed"
    ]_vars

\* the reddit ids of the generated posts, in order
GeneratedIds == [k \in 1..Len(state.generated_posts) |-> state.generated_posts[k].raw_post.reddit_id]

\* C10 (as claimed): a run that entered Publish ends Completed.
C10_PublishRunCompletes ==
  (pc = "done" /\ Entered("posting")) => state.current_step = "completed"

\* C10 (amended): in Publish every generated post is attempted once, in
\* order, whatever the earlier attempts did; each gets a result, posted or
\* failed, and the Ledger row agrees with it where it was written; failed
\* attempts never set the run's error, so a run whose Publish stage returned
\* ends Completed unless a Ledger call of run_workflow raised, and then it
\* ends Failed.
C10_PublishIsolatesFailures ==
  /\ pc = "posting" =>
       /\ pubCalls = SubSeq(GeneratedIds, 1,
                            IF loc.phase = "ledger" THEN loc.i ELSE loc.i - 1)
       /\ Len(loc.acc) = loc.i - 1
       /\ state.error_message = "None"
  /\ (Entered("posting") /\ GraphEnded /\ state.results # <<>>) =>
       /\ pubCalls = GeneratedIds
       /\ Len(state.results) = Len(state.generated_posts)
       /\ \A k \in 1..Len(state.results) :
            /\ state.results[k].reddit_id = GeneratedIds[k]
            /\ state.results[k].status \in {"posted", "failed"}
            /\ ledger[GeneratedIds[k]].status \in {"posted", "failed"} =>
                 ledger[GeneratedIds[k]].status = state.results[k].status
       /\ state.total_posted + state.total_failed = Len(state.generated_posts)
       /\ pc # "done" => state.error_message = "None"
       /\ EndsByError

C10_SecondOfThreeFailed ==
  /\ pc = "done" /\ state.current_step = "completed"
  /\ Len(state.results) = 3
  /\ state.results[1].status = "posted"
  /\ state.results[2].status = "failed"
  /\ state.results[3].status = "posted"
  /\ state.total_posted = 2 /\ state.total_failed = 1

\* C11 (as claimed): after the Publish stage the Ledger row of every
\* generated post whose publish attempt failed, for whatever reason, is in
\* status failed and not left in generated.
C11_PublishFailuresRecorded ==
  (Entered("posting") /\ GraphEnded) =>
    \A k \in 1..Len(state.results) :
      state.results[k].status = "failed" =>
        ledger[state.results[k].reddit_id].status = "failed"

\* C12: when the Generate stage returns, its output holds exactly the posts
\* whose generation call yielded a text, whatever the other calls did; a
\* post whose call failed is left out, and while the stage runs a finished
\* call is never made again and a call in flight is never withdrawn.
C12_GenerationFailuresIsolated ==
  [][ /\ (pc = "generating" /\ pc' # "generating" /\ state'.error_message = "None") =>
          LET ok == {k \in 1..Len(loc.gen) : loc.gen[k] = "text"} IN
            /\ Len(state'.generated_posts) = Cardinality(ok)
            /\ state'.total_generated = Cardinality(ok)
            /\ \A k \in 1..Len(loc.gen) :
                 (k \in ok) <=> (loc.acc[k] \in Range(state'.generated_posts))
      /\ (pc = "generating" /\ pc' = "generating") =>
          \A k \in 1..Len(loc.gen) :
            /\ loc.gen[k] \in {"text", "None"} => loc'.gen[k] = loc.gen[k]
            /\ loc.gen[k] = "in_flight" => loc'.gen[k] # "pending"
    ]_vars

C12_OneOfThreeFailed ==
  /\ pc = "post_content"
  /\ genCalls = {1, 2, 3}
  /\ Len(get_posts_above_threshold(state)) = 3
  /\ Len(state.generated_posts) = 2

-----------------------------------------------------------------------------
(* The Generate stage on its own: generate_content_node entered with a     *)
(* batch of scored posts above the threshold, larger than the semaphore    *)

MaxBatch == 6         \* posts above the threshold handed to the stage

\* the posts of a batch, each seen with the same upvotes
BatchPosts(n) == [k \in 1..n |-> RawPost(k, 15000)]

\* the TrendState of a run that scraped and scored such a batch
StateAtGenerate(n) ==
  LET s0 == start_workflow(TrendState, 1)
      s1 == add_raw_posts(update_step(s0, "scraping"), BatchPosts(n))
  IN add_scored_posts(update_step(s1, "scoring"), score_posts(s1.raw_posts))

InitGen ==
  /\ InitSched
  /\ \E n \in 1..MaxBatch : state = StateAtGenerate(n)
  /\ pc = "generate_content"
  /\ runNo = 1
  /\ loc = NoLocals
  /\ genCalls = {}
  /\ pubCalls = <<>>
  /\ stepLog = <<"starting", "scraping", "scoring">>
  /\ ledger = [p \in PostIds |->
                 IF p \in Ids(state.raw_posts)
                   THEN mark_scored(save_post_record([q \in PostIds |-> NoPostRecord], p)[p], TRUE)
                   ELSE NoPostRecord]
  /\ wf = [NoWorkflowRecord EXCEPT !.created = TRUE,
             !.current_step = "starting", !.success = "False"]
  /\ mq = NoBackfill
  /\ mCount = 0
  /\ reply = NoReply

NextGen ==
  \/ GenerateEnter
  \/ \E k \in 1..Len(loc.gen) : GenerateCall(k)
  \/ \E k \in 1..Len(loc.gen) : GenerateTweet(k)
  \/ GenerateReturn

\* the event loop runs every task that can run, and every completion call
\* comes back, with a text or an error
SpecGen == InitGen /\ [][NextGen]_vars /\ WF_vars(NextGen)

\* C13: in the Generate stage at most 5 generation calls are in flight at
\* any instant, whatever the size of the batch and the order in which the
\* calls come back; a call is made only for a post that had none yet, and
\* in the end a call has been made for every post of the batch.
C13_AtMostFiveInFlight ==
  /\ [](Cardinality(InFlight(loc.gen)) <= 5)
  /\ [][ \A k \in 1..Len(loc.gen) :
           (Len(loc'.gen) = Len(loc.gen) /\ loc'.gen[k] = "in_flight"
            /\ loc.gen[k] # "in_flight") =>
             /\ loc.gen[k] = "pending"
             /\ loc.acc[k].raw_post.reddit_id \notin genCalls ]_vars
  /\ <>(genCalls = {sp.raw_post.reddit_id : sp \in Range(get_posts_above_threshold(state))})

C13_SixthCallWaits ==
  /\ pc = "generating"
  /\ Cardinality(InFlight(loc.gen)) = 5
  /\ \E k \in 1..Len(loc.gen) : loc.gen[k] = "pending"


\* the reddit ids of a list of PostResults, in order
ResultIds(results) == [k \in 1..Len(results) |-> results[k].reddit_id]

\* C14: Publish is sequential and keeps the order of the generated list: a
\* publish call starts only when no other is in flight and every earlier
\* call has returned its result, the call is for the next generated post,
\* and the results are in the order of the generated posts.
C14_PublishSequentialInOrder ==
  /\ [](pc = "posting" =>
          /\ ResultIds(loc.acc) = SubSeq(GeneratedIds, 1, Len(loc.acc))
          /\ Len(pubCalls) - Len(loc.acc) = IF loc.phase = "ledger" THEN 1 ELSE 0)
  /\ []((GraphEnded /\ state.results # <<>>) =>
          /\ ResultIds(state.results) = GeneratedIds
          /\ pubCalls = GeneratedIds)
  /\ [][ pubCalls' # pubCalls =>
           /\ pc = "posting" /\ loc.phase = "call"
           /\ Len(loc.acc) = Len(pubCalls)
           /\ Len(pubCalls) < Len(GeneratedIds)
           /\ pubCalls' = Append(pubCalls, GeneratedIds[Len(pubCalls) + 1]) ]_vars

C14_ThirdCallInFlight ==
  /\ pc = "posting" /\ loc.phase = "ledger"
  /\ Len(pubCalls) = 3 /\ Len(loc.acc) = 2
  /\ loc.acc[1].status = "failed" /\ loc.acc[2].status = "posted"

-----------------------------------------------------------------------------
(* The Publish stage and the metrics back-fill on their own *)

\* the TrendState of a run that generated a tweet for each post of a batch
StateAtPublish(n) ==
  LET s == update_step(StateAtGenerate(n), "generating")
  IN add_generated_posts(s, get_posts_above_threshold(s))

InitPublish ==
  /\ InitSched
  /\ \E n \in 1..MaxPosts : state = StateAtPublish(n)
  /\ pc = "post_content"
  /\ runNo = 1
  /\ loc = NoLocals
  /\ genCalls = Ids(state.raw_posts)
  /\ pubCalls = <<>>
  /\ stepLog = <<"starting", "scraping", "scoring", "generating">>
  /\ ledger = [p \in PostIds |->
                 IF p \in Ids(state.raw_posts)
                   THEN mark_generated(mark_scored(
                          save_post_record([q \in PostIds |-> NoPostRecord], p)[p], TRUE))
                   ELSE NoPostRecord]
  /\ wf = [NoWorkflowRecord EXCEPT !.created = TRUE,
             !.current_step = "starting", !.success = "False"]
  /\ mq = NoBackfill
  /\ mCount = 0
  /\ reply = NoReply

NextPublish ==
  \/ PostEnter
  \/ PostTweet
  \/ PostUpdateDb
  \/ PostSleep
  \/ PostReturn
  \/ StageRaises
  \/ UpdateWorkflowStats
  \/ CompleteWorkflow
  \/ HourPasses
  \/ MetricsSelect
  \/ MetricsRead
  \/ MetricsSleep
  \/ MetricsUpdate
  \/ MetricsReturn

SpecPublish == InitPublish /\ [][NextPublish]_vars

\* C15: after the first, a publish call starts only once 3 seconds have
\* passed since the previous one returned, and a metrics read only once 12
\* seconds have passed since the previous read, whether that call succeeded
\* or failed; the calls are made for every item, in the order of the list.
C15_RateSpacing ==
  /\ [][ Len(pubCalls') > Len(pubCalls) =>
           /\ pubCalls # <<>> => loc.waited >= 3
           /\ pubCalls' = Append(pubCalls, GeneratedIds[Len(pubCalls) + 1]) ]_vars
  /\ [][ (pc = "posting" /\ pc' # "posting" /\ state'.error_message = "None") =>
           pubCalls = GeneratedIds ]_vars
  /\ [][ Len(mq'.calls) > Len(mq.calls) =>
           /\ mq.calls # <<>> => mq.waited >= 12
           /\ mq'.calls = Append(mq.calls, mq.tweet_ids[Len(mq.calls) + 1]) ]_vars
  /\ [][ (mq.phase = "read" /\ mq'.phase = "update") => mq'.calls = mq.tweet_ids ]_vars

C15_CallsAfterFailedCalls ==
  /\ Len(state.results) = 3
  /\ state.results[1].status = "failed"
  /\ state.results[2].status = "posted" /\ state.results[3].status = "posted"
  /\ mq.phase = "read" /\ mq.i = 2 /\ mq.last = "None" /\ mq.waited = 12


-----------------------------------------------------------------------------
(* The scheduled workflow job and SchedulerManager.stop *)

\* _run_workflow_job: counts the result as a success or a failure and
\* returns; it raises only when run_trend_analysis raised
run_workflow_job(result) == [result EXCEPT !.fn = "_run_workflow_job"]

\* the event the executor dispatches for a job function that returned or
\* raised; _job_executed_listener and _job_error_listener log it
JobEvent(r) == IF r.kind = "raise" THEN "EVENT_JOB_ERROR" ELSE "EVENT_JOB_EXECUTED"

\* _run_workflow_job counts the result of run_trend_analysis
count_workflow_result(stats, result) ==
  IF result.success = "True"
    THEN [stats EXCEPT !.workflow_successes = @ + 1]
    ELSE [stats EXCEPT !.workflow_failures = @ + 1]

\* the executor starts _run_workflow_job, which counts the run and calls
\* run_trend_analysis() without overrides
WorkflowJobStart ==
  /\ schedulerUp
  /\ runNo = 0
  /\ run_workflow_begin(<<>>, <<>>)
  /\ job_stats' = [job_stats EXCEPT !.workflow_runs = @ + 1]
  /\ UNCHANGED <<schedulerUp, now, nextRun, tasks, apiRuns, manualDue,
                 manualCount, skipped, scheduler, reply>>

\* run_workflow has returned its final state to run_trend_analysis, and that
\* its result to _run_workflow_job, which returns
WorkflowJobReturn ==
  /\ pc = "done"
  /\ reply' = run_workflow_job(
                 run_trend_analysis([kind |-> "return", final_state |-> state]))
  /\ job_stats' = count_workflow_result(job_stats, reply')
  /\ pc' = "returned"
  /\ UNCHANGED <<schedulerUp, now, nextRun, tasks, apiRuns, manualDue,
                 manualCount, skipped, scheduler, runNo, state, loc, genCalls,
                 pubCalls, stepLog, ledger, wf, mq, mCount>>

\* the run is suspended in an await: between two steps of run_workflow or of
\* a node; in the publish loop only inside post_tweet's Ledger write and in
\* the sleep, create_tweet being a blocking call
Suspended ==
  /\ pc \notin {"idle", "done", "returned", "cancelled"}
  /\ pc = "posting" => loc.phase \in {"ledger", "sleep"}

\* SchedulerManager.stop: scheduler.shutdown(wait=True), scheduler = None,
\* running = False.  The shutdown of the asyncio executor cancels the task of
\* every job function that is executing: CancelledError is raised at the
\* await where the run is suspended, and being no Exception it passes every
\* handler of the nodes, of run_workflow, of run_trend_analysis and of the
\* job function, none of which touches the state or the Ledger for it.
Stop ==
  /\ schedulerUp
  /\ pc \in {"idle", "done", "returned"} \/ Suspended
  /\ mq.phase # "read"
  /\ mq' = IF mq.phase \in {"query", "sleep", "update"}
             THEN [NoBackfill EXCEPT !.phase = "cancelled"] ELSE mq
  /\ schedulerUp' = FALSE
  /\ scheduler' = NoScheduler
  /\ IF Suspended
       THEN /\ pc' = "cancelled"
            /\ reply' = [NoReply EXCEPT !.fn = "_run_workflow_job", !.kind = "raise",
                                        !.error_message = "CancelledError"]
       ELSE UNCHANGED <<pc, reply>>
  /\ UNCHANGED <<now, nextRun, tasks, apiRuns, manualDue, manualCount, skipped,
                 job_stats, runNo, state, loc, genCalls, pubCalls, stepLog, ledger, wf, mCount>>

NextJob ==
  \/ Start
  \/ WorkflowJobStart
  \/ CreateWorkflowRecord
  \/ ScrapeEnter
  \/ ScrapeSubreddit
  \/ ScrapeReturn
  \/ ScoreEnter
  \/ ScoreUpdateDb
  \/ ScoreReturn
  \/ GenerateEnter
  \/ \E k \in 1..Len(loc.gen) : GenerateCall(k)
  \/ \E k \in 1..Len(loc.gen) : GenerateTweet(k)
  \/ GenerateReturn
  \/ PostEnter
  \/ PostTweet
  \/ PostUpdateDb
  \/ PostSleep
  \/ PostReturn
  \/ StageRaises
  \/ UpdateWorkflowStats
  \/ CompleteWorkflow
  \/ WorkflowJobReturn
  \/ Stop

SpecJob == Init /\ [][NextJob]_vars

\* C16 (as claimed): a run that was in flight when the scheduler was stopped
\* ends Failed with a cancellation reason, in the run state and in the
\* WorkflowRecord; it is not left in a running step.
C16_StoppedRunEndsFailed ==
  pc = "cancelled" =>
    /\ state.current_step = "failed"
    /\ state.error_message # "None"
    /\ wf.created => (wf.current_step = "failed" /\ wf.completed_at)

\* the item whose publish is in progress: the one post_tweet is writing to
\* the Ledger for, or the one the rate-limit wait stands before
MidPublishItem ==
  IF loc.phase = "ledger" THEN loc.result.reddit_id ELSE GeneratedIds[loc.i]

\* C17 (as claimed): when a run is cancelled in the publish loop, the item
\* whose publish was in progress is Failed in the Ledger, not Generated.
C17_MidPublishItemFailed ==
  (pc = "cancelled" /\ state.current_step = "posting") =>
    /\ ledger[MidPublishItem].status = "failed"
    /\ \A p \in Range(pubCalls) : ledger[p].status # "generated"

\* C19 (as claimed): when a scheduled run ends Failed the job function
\* raises, so the executor dispatches the error event; a run-fatal failure
\* never ends in the executed event.
C19_FailedRunRaisesInJob ==
  (reply.fn = "_run_workflow_job" /\ pc = "returned" /\ state.current_step = "failed")
    => JobEvent(reply) = "EVENT_JOB_ERROR"

\* C18: a run-fatal failure (a node raising outside its per-item handlers, or
\* a Ledger call of run_workflow raising, the creation of the run record
\* included) sets the error of the run and the step failed in one go and
\* ends the graph; from then on no stage is entered, no generation or
\* publishing call is made, the run stays Failed with its error, and no
\* other run is started for it.
C18_RunFatalAborts ==
  /\ [](state.error_message # "None" =>
          /\ state.current_step = "failed"
          /\ pc \in {"END", "complete_workflow", "done", "returned"})
  /\ [][ state.error_message # "None" =>
           /\ state'.error_message # "None"
           /\ stepLog' = stepLog
           /\ genCalls' = genCalls /\ pubCalls' = pubCalls
           /\ runNo' = runNo ]_vars
  /\ []((pc = "done" /\ state.current_step = "failed") =>
          /\ state.error_message # "None"
          /\ stepLog[Len(stepLog)] = "failed"
          /\ wf.completed_at => (wf.current_step = "failed" /\ wf.success = "False"))

C18_ScoringRaisedWithPostsAboveThreshold ==
  /\ pc = "done" /\ state.error_message = "node_error"
  /\ get_posts_above_threshold(state) # <<>>
  /\ stepLog = <<"starting", "scraping", "scoring", "failed">>
  /\ wf.current_step = "failed"

NextStatus ==
  \/ PostEnter
  \/ PostTweet
  \/ PostUpdateDb
  \/ PostSleep
  \/ PostReturn
  \/ StageRaises
  \/ UpdateWorkflowStats
  \/ CompleteWorkflow
  \/ RunTrendAnalysisReturn
  \/ GetWorkflowStatus

\* the end of a run, from its Publish stage on, and the queries about it
SpecStatus == InitPublish /\ [][NextStatus]_vars

\* the reply reports a failure: a run that ended Failed, an unknown id or a
\* failure of the Ledger, a record marked failed
ReplyOfFailure(r, st, w) ==
  \/ r.fn = "run_trend_analysis" /\ st.current_step = "failed"
  \/ r.fn = "get_workflow_status" /\ r.found = "False"
  \/ r.fn = "get_workflow_status" /\ r.found = "True" /\ w.current_step = "failed"

\* C20 (as claimed): run_trend_analysis and get_workflow_status never raise,
\* and every failure they report is a result with success false and an
\* error message.
C20_FailureIsSuccessFalse ==
  [][ reply' # reply =>
        /\ reply'.kind = "return"
        /\ ReplyOfFailure(reply', state', wf') =>
             (reply'.success = "False" /\ reply'.error_message # "None") ]_vars

\* C20 (amended): run_trend_analysis and get_workflow_status never raise.
\* run_trend_analysis reports success false with the error message exactly
\* when the run ended Failed.  get_workflow_status answers an unknown id and
\* a failure of the Ledger alike with found false and an error text, without
\* a success field; for a record it finds it returns the record's fields,
\* success false with an error message once the record is marked failed.
C20_QueriesNeverRaise ==
  [][ reply' # reply =>
        /\ reply'.kind = "return"
        /\ reply'.fn \in {"run_trend_analysis", "get_workflow_status"}
        /\ reply'.fn = "run_trend_analysis" =>
             /\ pc = "done"
             /\ reply'.success \in {"True", "False"}
             /\ reply'.success = "False" <=> state.current_step = "failed"
             /\ reply'.success = "False" <=> reply'.error_message # "None"
             /\ reply'.error_message = state.error_message
        /\ reply'.fn = "get_workflow_status" =>
             /\ reply'.found \in {"True", "False"}
             /\ reply'.found = "False" =>
                  (reply'.success = "None" /\ reply'.error_message = "Workflow not found")
             /\ reply'.found = "True" =>
                  /\ wf.created
                  /\ reply'.success = wf.success /\ reply'.success \in {"True", "False"}
                  /\ reply'.error_message = wf.error_message
                  /\ reply'.is_running = "True" <=> ~wf.completed_at
                  /\ wf.current_step = "failed" =>
                       (reply'.success = "False" /\ reply'.error_message # "None") ]_vars

C20_LedgerErrorReportedAsNotFound ==
  /\ pc = "returned" /\ state.current_step = "failed" /\ wf.current_step = "failed"
  /\ state.total_failed > 0
  /\ reply.fn = "get_workflow_status" /\ reply.found = "False"

-----------------------------------------------------------------------------
(* Counters of a run *)

\* the per-stage counters of a TrendState, in the order of update_stats
Counters(st) ==
  << st.total_scraped, st.total_scored, st.total_generated,
     st.total_posted, st.total_failed >>

NotLowered(before, after) == \A k \in 1..5 : before[k] <= after[k]

\* C21: within a run no step lowers a per-stage counter (collected, scored,
\* generated, posted, failed), neither in the run's state nor in the totals
\* of the Ledger's run record; a stage failure and the final statistics
\* update are steps like any other.
C21_CountersNeverLowered ==
  [][ runNo' = runNo =>
        /\ NotLowered(Counters(state), Counters(state'))
        /\ NotLowered(wf.totals, wf'.totals) ]_vars

\* the Score stage raised after it had counted its posts, and the run record
\* got the final statistics of the failed run
C21_CountedThenFailed ==
  /\ pc = "done"
  /\ state.error_message = "node_error"
  /\ state.total_scraped > 0
  /\ state.total_scored > 0
  /\ wf.totals = Counters(state)
  /\ wf.success = "False"

-----------------------------------------------------------------------------
(* completed_at of a run *)

\* the run's state is Completed or Failed
Terminal(st) == st.current_step \in {"completed", "failed"}

\* C22: completed_at of a run is set exactly once, at the terminal
\* transition: it is unset while the run is in a non-terminal stage, set
\* once the run is Completed or Failed, and never assigned a second time
\* (state.completed_at counts the assignments).
C22_CompletedAtSetOnce ==
  /\ ~Terminal(state) => state.completed_at = 0
  /\ Terminal(state) => state.completed_at = 1

-----------------------------------------------------------------------------
(* Metrics back-fill and the Ledger *)

\* the row is Published, at least an hour old and without metrics
PublishedOldNoMetrics(rec) ==
  /\ rec.status = "posted"
  /\ rec.posted_at = "old"
  /\ ~rec.metrics_collected_at

\* the step belongs to the back-fill
BackfillStep == mq' # mq

\* C23 as claimed: the back-fill reads only items that are Published, at
\* least an hour old and without metrics, and each item whose metrics read
\* succeeded becomes MetricsCollected with its figures stored when the
\* back-fill comes to write it.
C23_ReadItemsBecomeMetricsCollected ==
  [][ /\ (mq.phase = "read" /\ BackfillStep) =>
            PublishedOldNoMetrics(ledger[mq.tweet_ids[mq.i]])
      /\ (mq.phase = "update" /\ mq'.phase = "update" /\ BackfillStep) =>
            /\ ledger'[mq.results[mq.i]].status = "metrics_collected"
            /\ ledger'[mq.results[mq.i]].metrics_collected_at ]_vars

\* C23, amended: the back-fill selects exactly the rows that are Published,
\* at least an hour old and without metrics, reads metrics only for selected
\* items, and writes only to selected items whose read succeeded: such an
\* item becomes MetricsCollected with its figures stored, or is left as it
\* was when the Ledger write raised; no other row is changed by the job.
C23_BackfillTouchesOnlySelected ==
  [][ BackfillStep =>
        /\ mq.phase = "idle" =>
              /\ \A p \in PostIds :
                    p \in Range(mq'.tweet_ids) <=> PublishedOldNoMetrics(ledger[p])
              /\ ledger' = ledger
        /\ mq.phase \in {"read", "sleep"} =>
              /\ Range(mq'.calls) \subseteq Range(mq.tweet_ids)
              /\ Range(mq'.results) \subseteq Range(mq'.calls)
              /\ ledger' = ledger
        /\ (mq.phase = "update" /\ mq'.phase = "update") =>
              LET id == mq.results[mq.i]
              IN /\ id \in Range(mq.tweet_ids)
                 /\ \A p \in PostIds \ {id} : ledger'[p] = ledger[p]
                 /\ \/ ledger'[id] = ledger[id]
                    \/ /\ ledger'[id].status = "metrics_collected"
                       /\ ledger'[id].metrics_collected_at
        /\ (mq.phase = "update" /\ mq'.phase = "idle") =>
              /\ mq.i > Len(mq.results)
              /\ ledger' = ledger ]_vars

\* the back-fill stored the metrics of an item it selected, while an item
\* published less than an hour ago was not selected and is still Published
C23_OldCollectedRecentLeft ==
  /\ mq.phase = "update"
  /\ \E p \in Range(mq.results) :
       /\ ledger[p].status = "metrics_collected"
       /\ ledger[p].metrics_collected_at
  /\ \E q \in PostIds \ Range(mq.tweet_ids) :
       /\ ledger[q].status = "posted"
       /\ ledger[q].posted_at = "recent"


\* the items of a back-fill whose read failed with an error that was not
\* "not found"
OtherReadErrors(q) == (Range(q.calls) \ Range(q.results)) \ q.not_found

\* C24: in the metrics back-fill every selected item is attempted, once; an
\* item whose read ends "not found" is skipped and not counted as a failure,
\* any other read error is counted in the errors of the summary.
C24_NotFoundSkippedOthersCounted ==
  [][ (mq.phase = "update" /\ mq'.phase = "idle") =>
        /\ mq.calls = mq.tweet_ids
        /\ Summary(mq).errors = Cardinality(OtherReadErrors(mq)) ]_vars

-----------------------------------------------------------------------------
(* Collect stage and its source groups *)

\* the posts of the fetches that did not raise, in the order of the fetches
RECURSIVE PostsFetched(_)
PostsFetched(fetched) ==
  IF fetched = <<>> THEN <<>>
  ELSE (IF Head(fetched).raised THEN <<>> ELSE Head(fetched).posts)
         \o PostsFetched(Tail(fetched))

\* C25: a source group whose fetch fails does not end the Collect stage:
\* the stage goes on with the next group and does not fail the run, every
\* configured group is fetched before the stage returns, and the output of
\* the stage holds every item of the groups that succeeded.
C25_GroupFailureTolerated ==
  [][ pc = "scraping" =>
        /\ Len(loc'.fetched) > Len(loc.fetched) =>
              /\ pc' = "scraping"
              /\ state' = state
              /\ loc'.i = loc.i + 1
        /\ (pc' # "scraping" /\ state'.error_message = "None") =>
              /\ Len(loc.fetched) = Len(subreddits)
              /\ state'.raw_posts = state.raw_posts \o PostsFetched(loc.fetched)
              /\ state'.total_scraped = Len(state'.raw_posts)
              /\ state'.current_step = "scraping" ]_vars

\* the second subreddit raised; the first and the third were fetched and
\* their posts are what the stage is about to return
C25_SecondGroupFailed ==
  /\ pc = "scraping"
  /\ Len(loc.fetched) = 3
  /\ loc.fetched[2].raised
  /\ ~loc.fetched[1].raised /\ loc.fetched[1].posts # <<>>
  /\ ~loc.fetched[3].raised /\ loc.fetched[3].posts # <<>>
  /\ loc.acc = loc.fetched[1].posts \o loc.fetched[3].posts
  /\ state.error_message = "None"

-----------------------------------------------------------------------------
(* Publish attempts of a run *)

\* C26: within one run the publishing collaborator is called at most once
\* per generated item: no item is handed to it twice, so nothing is
\* published twice and a failed publish is not tried again in that run.
C26_AtMostOneAttemptPerItem ==
  /\ \A a, b \in 1..Len(pubCalls) : pubCalls[a] = pubCalls[b] => a = b
  /\ Range(pubCalls) \subseteq Range(GeneratedIds)
  /\ Len(pubCalls) <= Len(state.generated_posts)

\* the run is over: the first of three publish calls failed and the
\* collaborator was called three times in all
C26_FailedCallNotRepeated ==
  /\ pc = "done"
  /\ Len(state.results) = 3
  /\ state.results[1].status = "failed"
  /\ Len(pubCalls) = 3
  /\ pubCalls[1] = state.results[1].reddit_id

-----------------------------------------------------------------------------
(* Score stage and the Ledger *)

\* C27: every item the Score stage scored is recorded as Scored whatever
\* its verdict: the write the stage makes for a scored item, above or below
\* the threshold, leaves the item's Ledger row in status Scored.
C27_ScoredWhateverTheVerdict ==
  [][ (pc = "scoring" /\ pc' = "scoring" /\ loc'.i = loc.i + 1) =>
        LET scored_post == loc.acc[loc.i]
            id == scored_post.raw_post.reddit_id
        IN Exists(ledger, id) =>
             update_post_score(ledger, id, scored_post.meets_threshold)[id].status
               = "scored" ]_vars

-----------------------------------------------------------------------------
(* The scorer on its own: ViralityScorer.score_post for any post *)

\* posts handed to the scorer: upvotes, age in minutes (negative when the
\* creation time lies ahead of the clock, zero, below one minute, 12, 15, 24,
\* 36 and 40 hours), comments, upvote ratio in percent, subreddit
ScoreUpvotes == {0, 100, 200, 12000}
ScoreAges ==
  { <<0 - 5, 1>>, <<0, 1>>, <<1, 2>>, <<1, 1>>, <<60, 1>>, <<720, 1>>,
    <<900, 1>>, <<1440, 1>>, <<2160, 1>>, <<2400, 1>> }
ScoreComments == {0, 30}
ScoreRatios == {60, 80, 95}
ScoreSubreddits == {"interestingasfuck", "technology", "pics", "news"}

\* values of MIN_SCORE the application is configured with
ConfiguredMinScores == {100, 200}

\* the second read of post.age_minutes comes after the first: the age it
\* gives is the same or, the clock having moved, a later one
ScoreInputs ==
  { post \in [ reddit_id : {1}, upvotes : ScoreUpvotes, age_minutes : ScoreAges,
               age_minutes_again : ScoreAges, num_comments : ScoreComments,
               upvote_ratio : ScoreRatios, subreddit : ScoreSubreddits ] :
      FracGE(post.age_minutes_again, post.age_minutes) }

\* scorer.score_post(post) is called under a configured minimum
InitScore ==
  /\ InitSched
  /\ InitRun
  /\ \E post \in ScoreInputs : \E min_score \in ConfiguredMinScores :
       reply = [ fn |-> "score_post", kind |-> "call",
                 post |-> post, min_score |-> min_score ]

\* scorer.score_post(post) returns; the reply also shows the age and the base
\* score that calculate_virality_score computed on the way and the age
\* factor of _apply_scoring_factors
ScorePost ==
  /\ reply.fn = "score_post"
  /\ reply.kind = "call"
  /\ LET post == reply.post
         scored_post == score_post_configured(post, reply.min_score)
     IN reply' = [ fn |-> "score_post", kind |-> "return",
                   post |-> post, min_score |-> reply.min_score,
                   age_minutes |-> velocity_age_minutes(post),
                   base_score |-> base_score_of(post),
                   age_factor |-> age_decay_factor(post.age_minutes_again),
                   score |-> scored_post.score,
                   meets_threshold |-> scored_post.meets_threshold ]
  /\ UNCHANGED <<schedVars, runVars>>

NextScore == ScorePost

SpecScore == InitScore /\ [][NextScore]_vars

Scored == reply.fn = "score_post" /\ reply.kind = "return"

\* C28: the threshold check is inclusive: for a score s and a configured
\* minimum m the verdict is true exactly when s >= m; a score equal to the
\* minimum passes.
C28_ThresholdInclusive ==
  Scored =>
    (reply.meets_threshold <=> reply.score[1] >= reply.min_score * reply.score[2])

\* a post whose score equals the configured minimum passed
C28_ScoreEqualToMinimumPasses ==
  /\ Scored
  /\ reply.score = <<reply.min_score, 1>>
  /\ reply.meets_threshold

C32_OneAgePerEvaluation ==
  Scored =>
    /\ reply.post.age_minutes_again = reply.post.age_minutes
    /\ \A again \in ScoreAges :
         FracGE(again, reply.post.age_minutes) =>
           calculate_virality_score([reply.post EXCEPT !.age_minutes_again = again])
             = reply.score

\* ---------------------------------------------------------------------
\* SpecCollect: one run started with or without a subreddit list
\* ---------------------------------------------------------------------

\* the subreddits argument of run_workflow: None, or a list
SubredditOverrides ==
  { <<>>, << <<"technology">> >>, << <<"programming", "technology">> >> }

NextCollect ==
  \/ \E subreddits_override \in SubredditOverrides :
       runNo = 0 /\ run_workflow(<<>>, subreddits_override)
  \/ CreateWorkflowRecord
  \/ ScrapeEnter
  \/ ScrapeSubreddit
  \/ ScrapeReturn
  \/ ScoreEnter
  \/ ScoreUpdateDb
  \/ ScoreReturn
  \/ GenerateEnter
  \/ \E k \in 1..Len(loc.gen) : GenerateCall(k)
  \/ \E k \in 1..Len(loc.gen) : GenerateTweet(k)
  \/ GenerateReturn
  \/ PostEnter
  \/ PostTweet
  \/ PostUpdateDb
  \/ PostSleep
  \/ PostReturn
  \/ StageRaises
  \/ UpdateWorkflowStats
  \/ CompleteWorkflow

SpecCollect == Init /\ [][NextCollect]_vars

\* C33: when the loop of the Collect stage is over, the subreddits it
\* fetched are the subreddits of the run's state, each once and in order,
\* also for a run started with a subreddit list of its own
C33_FetchesTheRunsSubreddits ==
  (pc = "scraping" /\ loc.i > Len(subreddits)) =>
    /\ Len(loc.fetched) = Len(state.subreddits)
    /\ \A k \in 1..Len(loc.fetched) :
         loc.fetched[k].subreddit_name = state.subreddits[k]

-----------------------------------------------------------------------------
\* SpecTweet: generate_tweet on one completion, then the length check of
\* post_tweet on the text it returned. A text is a sequence of characters.

Chars(c, n) == [k \in 1..n |-> c]

RECURSIVE lstrip(_)
lstrip(text) ==
  IF text # <<>> /\ Head(text) = " " THEN lstrip(Tail(text)) ELSE text

RECURSIVE rstrip(_)
rstrip(text) ==
  IF text # <<>> /\ text[Len(text)] = " "
  THEN rstrip(SubSeq(text, 1, Len(text) - 1)) ELSE text

\* str.strip()
strip(text) == rstrip(lstrip(text))

\* a truncation that keeps 280 characters before the ellipsis
truncate_keeping_the_limit(tweet_text) ==
  IF Len(tweet_text) > 280
  THEN SubSeq(tweet_text, 1, 280) \o <<".", ".", ".">>
  ELSE tweet_text

\* if len(tweet_text) > 280: tweet_text = tweet_text[:277] + "..."
truncate(tweet_text) ==
  IF Len(tweet_text) > 280
  THEN SubSeq(tweet_text, 1, 277) \o <<".", ".", ".">>
  ELSE tweet_text

\* generate_tweet once the completion has returned its content
generate_tweet(content) == truncate(strip(content))

\* the validation of post_tweet: if len(tweet_text) > 280
tweet_too_long(tweet_text) == Len(tweet_text) > 280

\* the completions: spaces, letters, spaces
LeadingSpaces == {0, 1, 2}
ContentLetters == {0, 1, 100, 277, 278, 279, 280, 281, 282, 283, 284, 400}
TrailingSpaces == {0, 1, 5}
Contents ==
  { Chars(" ", lead) \o Chars("x", n) \o Chars(" ", trail) :
      lead \in LeadingSpaces, n \in ContentLetters, trail \in TrailingSpaces }

InitTweet ==
  /\ InitSched
  /\ InitRun
  /\ \E content \in Contents :
       reply = [fn |-> "generate_tweet", kind |-> "call", content |-> content]

\* generate_tweet returns the text
GenerateTweetReturn ==
  /\ reply.fn = "generate_tweet" /\ reply.kind = "call"
  /\ reply' = [fn |-> "generate_tweet", kind |-> "return",
               content |-> reply.content,
               tweet_text |-> generate_tweet(reply.content)]
  /\ UNCHANGED <<schedVars, runVars>>

\* generate_tweets_batch makes a GeneratedPost of a text that is not empty,
\* and post_tweet validates its length
PostTweetValidate ==
  /\ reply.fn = "generate_tweet" /\ reply.kind = "return"
  /\ reply.tweet_text # <<>>
  /\ reply' = [fn |-> "post_tweet", kind |-> "validated",
               content |-> reply.content, tweet_text |-> reply.tweet_text,
               too_long |-> tweet_too_long(reply.tweet_text)]
  /\ UNCHANGED <<schedVars, runVars>>

NextTweet ==
  \/ GenerateTweetReturn
  \/ PostTweetValidate

SpecTweet == InitTweet /\ [][NextTweet]_vars

\* C34: the text generate_tweet returns has at most 280 characters: a
\* completion longer than 280 characters after stripping is cut to its
\* first 277 characters and an ellipsis, and post_tweet never finds a
\* generated text too long.
C34_GeneratedTextWithinLimit ==
  reply.fn \in {"generate_tweet", "post_tweet"} /\ reply.kind # "call" =>
    /\ Len(reply.tweet_text) <= 280
    /\ Len(strip(reply.content)) > 280 =>
         /\ Len(reply.tweet_text) = 280
         /\ SubSeq(reply.tweet_text, 1, 277) = SubSeq(strip(reply.content), 1, 277)
    /\ Len(strip(reply.content)) <= 280 => reply.tweet_text = strip(reply.content)
    /\ reply.fn = "post_tweet" => ~reply.too_long

\* a completion of 281 letters was cut to 280 characters and passed the
\* length check of post_tweet
C34_TruncatedTextPublished ==
  /\ reply.fn = "post_tweet"
  /\ Len(strip(reply.content)) = 281
  /\ Len(reply.tweet_text) = 280
  /\ reply.tweet_text[280] = "."
  /\ ~reply.too_long

-----------------------------------------------------------------------------
\* SpecRunFair: one run in which every awaited call comes back, with a value
\* or an exception, so that run_workflow always takes its next step

\* the posts the subreddits return in this specification
FairPostIds == {1, 2}

NextRunFair ==
  NextRun /\ (pc' = "scraping" => Ids(loc'.acc) \subseteq FairPostIds)

SpecRunFair == Init /\ [][NextRunFair]_vars /\ WF_vars(NextRunFair)

\* run_workflow has returned a state that is completed or failed, with
\* completed_at set (is_running is False)
RunReturned ==
  /\ pc = "done"
  /\ state.current_step \in {"completed", "failed"}
  /\ state.completed_at >= 1

\* the loop of the Publish stage finished and the node added its results
PublishReturned == Entered("posting") /\ state.results # <<>>

\* C35 (as claimed): a run that started returns completed or failed, and
\* once the Publish stage has returned the run ends completed.
C35_TerminatesAndPublishCompletes ==
  /\ (runNo >= 1) ~> RunReturned
  /\ [](pc = "done" /\ PublishReturned => state.current_step = "completed")

\* C35 (amended): a run that started returns completed or failed with
\* completed_at set; once the Publish stage has returned the run ends
\* completed unless update_workflow_stats or complete_workflow raises, and
\* then it ends failed.
C35_RunTerminates ==
  /\ (runNo >= 1) ~> RunReturned
  /\ [](pc = "done" /\ PublishReturned =>
          \/ state.current_step = "completed"
          \/ /\ state.current_step = "failed"
             /\ state.error_message = "workflow_failed")

\* a run went through Publish and returned completed
C35_ReturnedCompletedAfterPublish ==
  /\ RunReturned
  /\ Entered("posting")
  /\ state.current_step = "completed"
  /\ state.results # <<>>

-----------------------------------------------------------------------------
\* C36: in every state of a run total_scored <= total_scraped,
\* total_generated <= the number of scored posts flagged as meeting the
\* threshold <= total_scored, and total_posted + total_failed <=
\* total_generated, with equality once the Publish stage has returned.
C36_CountersFormFunnel ==
  LET above_threshold == Len(get_posts_above_threshold(state)) IN
  /\ state.total_scored <= state.total_scraped
  /\ state.total_generated <= above_threshold
  /\ above_threshold <= state.total_scored
  /\ state.total_posted + state.total_failed <= state.total_generated
  /\ (pc \in {"END", "complete_workflow", "done"} /\ PublishReturned) =>
       state.total_posted + state.total_failed = state.total_generated

\* a run whose funnel narrowed at every stage: 3 scraped, 2 flagged, 1
\* generated, and after Publish 1 failed
C36_FunnelNarrowed ==
  /\ pc = "done"
  /\ state.total_scraped = 3
  /\ Len(get_posts_above_threshold(state)) = 2
  /\ state.total_generated = 1
  /\ state.total_posted = 0
  /\ state.total_failed = 1

-----------------------------------------------------------------------------
\* C37: when a run has ended, every post its results report as posted has a
\* Ledger row in status posted with its posting recorded, every post they
\* report as failed has a row in status failed, and the WorkflowRecord is
\* completed with the outcome of the returned state, whatever Ledger calls
\* failed during the run.
C37_LedgerAgreesWithResults ==
  pc = "done" =>
    /\ \A k \in 1..Len(state.results) :
         LET result == state.results[k] IN
           /\ result.status = "posted" =>
                /\ ledger[result.reddit_id].status = "posted"
                /\ ledger[result.reddit_id].posted_at # "None"
           /\ result.status = "failed" =>
                ledger[result.reddit_id].status = "failed"
    /\ wf.completed_at
    /\ wf.current_step = state.current_step
    /\ wf.success = (IF state.current_step = "completed" THEN "True" ELSE "False")

-----------------------------------------------------------------------------
\* C38 (workflow job): when no execution of the workflow job is in flight,
\* workflow_runs = workflow_successes + workflow_failures, also after an
\* execution that raised or was cancelled; the same for the metrics job.
C38_JobStatisticsBalance ==
  /\ pc \in {"idle", "returned", "cancelled"} =>
       job_stats.workflow_runs =
         job_stats.workflow_successes + job_stats.workflow_failures
  /\ mq.phase = "idle" =>
       job_stats.metrics_collections =
         job_stats.metrics_successes + job_stats.metrics_failures

-----------------------------------------------------------------------------
\* SpecManager: SchedulerManager.start, stop and get_status, and executions
\* of the metrics job over a Ledger that holds published posts

MaxJobRuns == 2       \* executions of the metrics job explored

\* the order in which _add_jobs adds the jobs
AddJobsOrder == <<"workflow_job", "metrics_job", "snapshot_job", "cleanup_job">>

\* start raises: the scheduler object is made, _add_jobs raises after added
\* jobs, or all four are added and scheduler.start() raises; the exception is
\* logged and raised again, self.running stays False
StartRaises ==
  /\ ~schedulerUp
  /\ \E added \in 0..Len(AddJobsOrder) :
       scheduler' = [exists |-> TRUE, started |-> FALSE,
                     jobs |-> {AddJobsOrder[k] : k \in 1..added}]
  /\ reply' = [NoReply EXCEPT !.fn = "start", !.kind = "raise"]
  /\ UNCHANGED <<runVars, schedulerUp, job_stats, now, nextRun, tasks, apiRuns,
                 manualDue, manualCount, skipped>>

\* start on a manager that is running, stop on one that is not: logged,
\* nothing else
StartWhileRunning ==
  /\ schedulerUp
  /\ reply' = [NoReply EXCEPT !.fn = "start", !.kind = "return"]
  /\ UNCHANGED <<schedVars, runVars>>

StopWhileStopped ==
  /\ ~schedulerUp
  /\ reply' = [NoReply EXCEPT !.fn = "stop", !.kind = "return"]
  /\ UNCHANGED <<schedVars, runVars>>

\* is_running()
is_running == schedulerUp /\ scheduler.exists

\* get_status(): without a scheduler object no jobs are reported, otherwise
\* the jobs of scheduler.get_jobs()
get_status ==
  IF ~scheduler.exists
    THEN [fn |-> "get_status", kind |-> "return", running |-> FALSE, jobs |-> {}]
    ELSE [fn |-> "get_status", kind |-> "return", running |-> schedulerUp,
          jobs |-> scheduler.jobs]

GetStatus ==
  /\ reply' = get_status
  /\ UNCHANGED <<schedVars, runVars>>

\* what collect_pending_metrics returns when its body raises, for one when
\* the Ledger query raises
error_summary ==
  [ posts_processed |-> 0, metrics_collected |-> 0, errors |-> 1,
    success |-> "absent", error_message |-> "str(e)" ]

\* the summary dictionaries have no "success" key
summary_of(q) ==
  [ posts_processed |-> Summary(q).posts_processed,
    metrics_collected |-> Summary(q).metrics_collected,
    errors |-> Summary(q).errors,
    success |-> "absent", error_message |-> "None" ]

\* _collect_metrics_job counts the result: result.get("success", True)
count_metrics_result(stats, result) ==
  IF (IF result.success = "absent" THEN TRUE ELSE result.success = "True")
    THEN [stats EXCEPT !.metrics_successes = @ + 1]
    ELSE [stats EXCEPT !.metrics_failures = @ + 1]

\* the job function returns with the result of collect_metrics_node
MetricsJobFinish(result) ==
  /\ job_stats' = count_metrics_result(job_stats, result)
  /\ reply' = [fn |-> "_collect_metrics_job", kind |-> "return", result |-> result]
  /\ mq' = NoBackfill

\* the executor starts _collect_metrics_job: it counts the collection and
\* collect_pending_metrics awaits the Ledger query
MetricsJobStart ==
  /\ schedulerUp
  /\ mq.phase \in {"idle", "cancelled"}
  /\ job_stats.metrics_collections < MaxJobRuns
  /\ job_stats' = [job_stats EXCEPT !.metrics_collections = @ + 1]
  /\ mq' = [NoBackfill EXCEPT !.phase = "query"]
  /\ UNCHANGED <<schedulerUp, scheduler, now, nextRun, tasks, apiRuns, manualDue,
                 manualCount, skipped, reply, pc, runNo, state, loc, genCalls,
                 pubCalls, stepLog, ledger, wf, mCount>>

\* get_posts_needing_metrics comes back: it raised, it found nothing, or
\* the reads begin
MetricsJobQuery ==
  /\ mq.phase = "query"
  /\ \E raised \in BOOLEAN :
       LET posts_needing_metrics == get_posts_needing_metrics(ledger) IN
         IF raised THEN MetricsJobFinish(error_summary)
         ELSE IF posts_needing_metrics = {} THEN MetricsJobFinish(summary_of(NoBackfill))
         ELSE /\ mq' = [NoBackfill EXCEPT !.tweet_ids = SeqOf(posts_needing_metrics),
                                          !.i = 1, !.phase = "read"]
              /\ UNCHANGED <<job_stats, reply>>
  /\ UNCHANGED <<schedulerUp, scheduler, now, nextRun, tasks, apiRuns, manualDue,
                 manualCount, skipped, pc, runNo, state, loc, genCalls,
                 pubCalls, stepLog, ledger, wf, mCount>>

\* every result is written: collect_pending_metrics returns its summary to
\* collect_metrics_node and that to the job
MetricsJobReturn ==
  /\ mq.phase = "update"
  /\ mq.i > Len(mq.results)
  /\ MetricsJobFinish(summary_of(mq))
  /\ UNCHANGED <<schedulerUp, scheduler, now, nextRun, tasks, apiRuns, manualDue,
                 manualCount, skipped, pc, runNo, state, loc, genCalls,
                 pubCalls, stepLog, ledger, wf, mCount>>

\* the posts of the Ledger were published more than an hour ago
InitManager ==
  /\ InitSched
  /\ pc = "idle"
  /\ runNo = 0
  /\ state = TrendState
  /\ loc = NoLocals
  /\ genCalls = {}
  /\ pubCalls = <<>>
  /\ stepLog = <<>>
  /\ wf = NoWorkflowRecord
  /\ mq = NoBackfill
  /\ mCount = 0
  /\ \E published \in SUBSET PostIds :
       ledger = [p \in PostIds |->
                   IF p \in published
                     THEN [mark_posted(save_post_record(
                             [q \in PostIds |-> NoPostRecord], p)[p])
                             EXCEPT !.posted_at = "old"]
                     ELSE NoPostRecord]
  /\ reply = NoReply

NextManager ==
  \/ Start
  \/ StartRaises
  \/ StartWhileRunning
  \/ Stop
  \/ StopWhileStopped
  \/ GetStatus
  \/ MetricsJobStart
  \/ MetricsJobQuery
  \/ MetricsRead
  \/ MetricsSleep
  \/ MetricsUpdate
  \/ MetricsJobReturn

SpecManager == InitManager /\ [][NextManager]_vars

\* the result of a back-fill execution that failed: the query raised, or
\* posts were selected and metrics were collected for none of them
FailedBackfill(result) ==
  \/ result.error_message # "None"
  \/ result.posts_processed > 0 /\ result.metrics_collected = 0

\* C39: an execution of the metrics job whose back-fill failed adds one to
\* metrics_failures and nothing to metrics_successes; metrics_successes
\* grows only with executions that did not fail.
C39_FailedBackfillCountedAsFailure ==
  [][ (mq.phase # "idle" /\ reply'.fn = "_collect_metrics_job" /\ mq'.phase = "idle") =>
        IF FailedBackfill(reply'.result)
          THEN /\ job_stats'.metrics_failures = job_stats.metrics_failures + 1
               /\ job_stats'.metrics_successes = job_stats.metrics_successes
          ELSE /\ job_stats'.metrics_successes = job_stats.metrics_successes + 1
               /\ job_stats'.metrics_failures = job_stats.metrics_failures
    ]_vars

\* C40: start on a running manager and stop on a stopped one change
\* nothing; while running is True there is a scheduler object with exactly
\* the four jobs; after a start that failed the manager is stopped,
\* is_running() is False and get_status() reports no jobs, and a start that
\* succeeds later registers the four jobs.
C40_SchedulerLifecycle ==
  /\ [](schedulerUp => scheduler.exists /\ scheduler.jobs = Jobs)
  /\ [](~schedulerUp => (~is_running /\ get_status.jobs = {}))
  /\ [][ ( /\ reply' # reply
            /\ \/ schedulerUp /\ reply'.fn = "start"
               \/ ~schedulerUp /\ reply'.fn = "stop" /\ reply'.kind = "return" ) =>
           UNCHANGED <<schedVars, runVars>> ]_vars
  /\ [][ (~schedulerUp /\ schedulerUp') =>
           scheduler' = [exists |-> TRUE, jobs |-> Jobs, started |-> TRUE] ]_vars

=========================================================================
